---- MODULE Spec2Model ----
(***************************************************************************)
(* Model of the multi-precision integer library                           *)
(* src/user/polarssl_sgx/bignum.c.                                         *)
(*                                                                         *)
(* An MPI is a record [s, p]: s is the sign field (+1 / -1) and p the limb *)
(* buffer, least significant limb first (C index i is p[i+1]); the field   *)
(* n of the C struct is Len(p) and p = NULL is the empty sequence.         *)
(* The limb word t_uint is modelled with biL = 8 bits (a scaled machine    *)
(* word, wide enough for half a limb to hold the primes of the scaled      *)
(* small_prime table); every limb operation is taken modulo 2^biL exactly  *)
(* where the C code computes in a t_uint.                                  *)
(*                                                                         *)
(* Memory is a function from object names to MPIs.  A pointer is a name,   *)
(* so two parameters holding the same name alias, as in the C code.  The   *)
(* local MPIs of each function are names of their own ("div.X", ...).      *)
(* Every function returns [ret, h]: the status and the memory it leaves.   *)
(*                                                                         *)
(* A loop of the code is a recursive operator that carries what the loop   *)
(* updates.  An argument is evaluated when it is first used, so a loop     *)
(* tests what it carries (its length, its range) when an iteration starts: *)
(* the test has one outcome and only makes the evaluation follow the       *)
(* statements of the code one after the other.                             *)
(***************************************************************************)
EXTENDS Integers, Sequences, FiniteSets, TLC

biL == 8
biH == 4
LimbMod == 2^biL
HalfMod == 2^biH

POLARSSL_MPI_MAX_LIMBS == 10000
POLARSSL_MPI_WINDOW_SIZE == 6

POLARSSL_ERR_MPI_BAD_INPUT_DATA == 0 - 4
POLARSSL_ERR_MPI_INVALID_CHARACTER == 0 - 6
POLARSSL_ERR_MPI_NEGATIVE_VALUE == 0 - 10
POLARSSL_ERR_MPI_DIVISION_BY_ZERO == 0 - 12
POLARSSL_ERR_MPI_NOT_ACCEPTABLE == 0 - 14
POLARSSL_ERR_MPI_MALLOC_FAILED == 0 - 16
\* status of a call that never returns (a loop whose state repeats)
DIVERGES == 0 - 1000

NULL == "NULL"

(***************************************************************************)
(* Word-level helpers: the C operators on a t_uint.                        *)
(***************************************************************************)
RECURSIVE BitOr(_, _)
BitOr(a, b) ==
    IF a = 0 THEN b
    ELSE IF b = 0 THEN a
    ELSE (IF a % 2 = 1 \/ b % 2 = 1 THEN 1 ELSE 0) + 2 * BitOr(a \div 2, b \div 2)

Shl(x, k) == (x * 2^k) % LimbMod
Shr(x, k) == x \div 2^k
Lt(a, b) == IF a < b THEN 1 ELSE 0
Min(a, b) == IF a < b THEN a ELSE b

RECURSIVE Zeros(_)
Zeros(k) ==
    IF k <= 0 THEN <<>>
    ELSE IF k = 1 THEN <<0>>
    ELSE Zeros(k \div 2) \o Zeros(k - k \div 2)
Ok(h) == [ret |-> 0, h |-> h]
Err(code, h) == [ret |-> code, h |-> h]

(***************************************************************************)
(* The mathematical value of an MPI (used only to state properties).       *)
(***************************************************************************)
RECURSIVE Mag(_)
Mag(p) == IF p = <<>> THEN 0 ELSE p[1] + LimbMod * Mag(Tail(p))
Val(X) == X.s * Mag(X.p)

\* index of the top non-zero limb plus one (0 for a zero magnitude)
RECURSIVE EffLen(_)
EffLen(p) ==
    IF p = <<>> THEN 0
    ELSE IF p[Len(p)] # 0 THEN Len(p)
    ELSE EffLen(SubSeq(p, 1, Len(p) - 1))

(***************************************************************************)
(* MPI core                                                                *)
(***************************************************************************)
InitMPI == [s |-> 1, p |-> <<>>]

sgx_mpi_init(h, X) == [h EXCEPT ![X] = InitMPI]

sgx_mpi_free(h, X) == [h EXCEPT ![X] = InitMPI]

sgx_mpi_grow(h, X, nblimbs) ==
    IF nblimbs > POLARSSL_MPI_MAX_LIMBS
    THEN Err(POLARSSL_ERR_MPI_MALLOC_FAILED, h)
    ELSE IF Len(h[X].p) < nblimbs
         THEN Ok([h EXCEPT ![X].p = @ \o Zeros(nblimbs - Len(@))])
         ELSE Ok(h)

\* the loop of copy and msb: for( i = n - 1; i > 0; i-- ) if( p[i] != 0 ) break;
TopIndex(p) == IF EffLen(p) = 0 THEN 0 ELSE EffLen(p) - 1

sgx_mpi_copy(h, X, Y) ==
    IF X = Y THEN Ok(h)
    ELSE IF h[Y].p = <<>> THEN Ok(sgx_mpi_free(h, X))
    ELSE LET i == TopIndex(h[Y].p) + 1
             h1 == [h EXCEPT ![X].s = h[Y].s]
             g == sgx_mpi_grow(h1, X, i)
         IN  IF g.ret # 0 THEN g
             ELSE Ok([g.h EXCEPT ![X].p =
                        SubSeq(h[Y].p, 1, i) \o Zeros(Len(@) - i)])

sgx_mpi_swap(h, X, Y) == [h EXCEPT ![X] = h[Y], ![Y] = h[X]]

sgx_mpi_lset(h, X, z) ==
    LET g == sgx_mpi_grow(h, X, 1)
    IN  IF g.ret # 0 THEN g
        ELSE Ok([g.h EXCEPT ![X] =
                   [s |-> IF z < 0 THEN 0 - 1 ELSE 1,
                    p |-> << (IF z < 0 THEN 0 - z ELSE z) % LimbMod >>
                             \o Zeros(Len(g.h[X].p) - 1)]])

(***************************************************************************)
(* Bit operations                                                          *)
(***************************************************************************)
\* number of trailing zero bits of a non-zero word
RECURSIVE Ctz(_)
Ctz(x) == IF x % 2 = 1 THEN 0 ELSE 1 + Ctz(x \div 2)

\* one-based index of the top set bit of a word, 0 for 0
RECURSIVE BitLen(_)
BitLen(x) == IF x = 0 THEN 0 ELSE 1 + BitLen(x \div 2)

RECURSIVE LsbFrom(_, _)
LsbFrom(p, i) ==
    IF i > Len(p) THEN 0
    ELSE IF p[i] # 0 THEN (i - 1) * biL + Ctz(p[i])
    ELSE LsbFrom(p, i + 1)

sgx_mpi_lsb(X) == LsbFrom(X.p, 1)

\* defined only for an allocated buffer: with n = 0 the C code reads p[n - 1]
sgx_mpi_msb(X) == TopIndex(X.p) * biL + BitLen(X.p[TopIndex(X.p) + 1])

BITS_TO_LIMBS(i) == (i + biL - 1) \div biL

\* one pass of the bit-shifting loop of shift_l, from limb index i upward
RECURSIVE ShlBits(_, _, _, _)
ShlBits(p, i, t1, r0) ==
    IF i > Len(p) THEN p
    ELSE ShlBits([p EXCEPT ![i] = BitOr(Shl(p[i], t1), r0)], i + 1, t1,
                 Shr(p[i], biL - t1))

sgx_mpi_shift_l(h, X, count) ==
    LET v0 == count \div biL
        t1 == count % biL
        i == sgx_mpi_msb(h[X]) + count
        g == IF Len(h[X].p) * biL < i
             THEN sgx_mpi_grow(h, X, BITS_TO_LIMBS(i))
             ELSE Ok(h)
    IN  IF g.ret # 0 THEN g
        ELSE LET p0 == g.h[X].p
                 p1 == IF v0 > 0
                       THEN SubSeq(Zeros(v0) \o p0, 1, Len(p0))
                       ELSE p0
                 p2 == IF t1 > 0 THEN ShlBits(p1, v0 + 1, t1, 0) ELSE p1
             IN  Ok([g.h EXCEPT ![X].p = p2])

RECURSIVE ShrBits(_, _, _, _)
ShrBits(p, i, v1, r0) ==
    IF i = 0 THEN p
    ELSE ShrBits([p EXCEPT ![i] = BitOr(Shr(p[i], v1), r0)], i - 1, v1,
                 Shl(p[i], biL - v1))

sgx_mpi_shift_r(h, X, count) ==
    LET v0 == count \div biL
        v1 == count % biL
        n == Len(h[X].p)
    IN  IF v0 > n \/ (v0 = n /\ v1 > 0)
        THEN sgx_mpi_lset(h, X, 0)
        ELSE LET p0 == h[X].p
                 p1 == IF v0 > 0
                       THEN SubSeq(p0 \o Zeros(v0), v0 + 1, v0 + n)
                       ELSE p0
                 p2 == IF v1 > 0 THEN ShrBits(p1, n, v1, 0) ELSE p1
             IN  Ok([h EXCEPT ![X].p = p2])

(***************************************************************************)
(* Comparison                                                              *)
(***************************************************************************)
\* top-down limb comparison of two buffers over limbs 1..i
RECURSIVE CmpLimbs(_, _, _)
CmpLimbs(xp, yp, i) ==
    IF i = 0 THEN 0
    ELSE IF xp[i] > yp[i] THEN 1
    ELSE IF xp[i] < yp[i] THEN 0 - 1
    ELSE CmpLimbs(xp, yp, i - 1)

sgx_mpi_cmp_abs(X, Y) ==
    LET i == EffLen(X.p)
        j == EffLen(Y.p)
    IN  IF i = 0 /\ j = 0 THEN 0
        ELSE IF i > j THEN 1
        ELSE IF j > i THEN 0 - 1
        ELSE CmpLimbs(X.p, Y.p, i)

\* mutant of sgx_mpi_cmp_mpi: a longer Y decides by the sign of X
CmpMpiSignOfX(X, Y) ==
    LET i == EffLen(X.p)
        j == EffLen(Y.p)
    IN  IF i = 0 /\ j = 0 THEN 0
        ELSE IF i > j THEN X.s
        ELSE IF j > i THEN 0 - X.s
        ELSE IF X.s > 0 /\ Y.s < 0 THEN 1
        ELSE IF Y.s > 0 /\ X.s < 0 THEN 0 - 1
        ELSE X.s * CmpLimbs(X.p, Y.p, i)

sgx_mpi_cmp_mpi(X, Y) ==
    LET i == EffLen(X.p)
        j == EffLen(Y.p)
    IN  IF i = 0 /\ j = 0 THEN 0
        ELSE IF i > j THEN X.s
        ELSE IF j > i THEN 0 - Y.s
        ELSE IF X.s > 0 /\ Y.s < 0 THEN 1
        ELSE IF Y.s > 0 /\ X.s < 0 THEN 0 - 1
        ELSE X.s * CmpLimbs(X.p, Y.p, i)

\* the one-limb view built on the stack by the *_int functions
IntView(z) == [s |-> IF z < 0 THEN 0 - 1 ELSE 1,
               p |-> << (IF z < 0 THEN 0 - z ELSE z) % LimbMod >>]

sgx_mpi_cmp_int(X, z) == sgx_mpi_cmp_mpi(X, IntView(z))

(***************************************************************************)
(* Control-flow helpers: MPI_CHK( f ) jumps to cleanup when f fails, and   *)
(* the cleanup label frees the function's local MPIs on every path.        *)
(***************************************************************************)
Then(r, F(_)) == IF r.ret # 0 THEN r ELSE F(r.h)

\* sgx_mpi_free of every local, in any order
RECURSIVE FreeAll(_, _)
FreeAll(h, locals) ==
    IF locals = {} THEN h
    ELSE FreeAll(sgx_mpi_free(h, CHOOSE x \in locals : TRUE),
                 locals \ {CHOOSE x \in locals : TRUE})

Release(r, locals) == [ret |-> r.ret, h |-> FreeAll(r.h, locals)]

(***************************************************************************)
(* Additive layer                                                          *)
(***************************************************************************)
\* while( c != 0 ) { if( i >= X->n ) grow( X, i + 1 ); *p += c; c = ( *p < c ); i++; }
RECURSIVE AddCarry(_, _, _, _)
AddCarry(h, X, i, c) ==
    IF c = 0 THEN Ok(h)
    ELSE Then(IF i >= Len(h[X].p) THEN sgx_mpi_grow(h, X, i + 1) ELSE Ok(h),
              LAMBDA h1:
                LET p1 == (h1[X].p[i + 1] + c) % LimbMod
                IN  AddCarry([h1 EXCEPT ![X].p[i + 1] = p1], X, i + 1, Lt(p1, c)))

\* for( i = 0; i < j; i++, o++, p++ ) { *p += c; c = ( *p < c );
\*                                      *p += *o; c += ( *p < *o ); }
\* o points into B and p into X: when B and X are one object the reads of
\* *o see the limb just written through p.  The carry loop follows.
RECURSIVE AddLoop(_, _, _, _, _, _)
AddLoop(h, X, B, i, j, c) ==
    IF i >= j THEN AddCarry(h, X, i, c)
    ELSE LET p1 == (h[X].p[i + 1] + c) % LimbMod
             c1 == Lt(p1, c)
             hA == [h EXCEPT ![X].p[i + 1] = p1]
             p2 == (p1 + hA[B].p[i + 1]) % LimbMod
             hB == [hA EXCEPT ![X].p[i + 1] = p2]
             c2 == c1 + Lt(p2, hB[B].p[i + 1])
         IN  AddLoop(hB, X, B, i + 1, j, c2)

\* the statements of add_abs after the exchange of A and B, pc the one to run
\* next on the status and memory r left by the one before; j is the local j
RECURSIVE AddAbsFrom(_, _, _, _, _, _)
AddAbsFrom(pc, r, X, A, B, j) ==
    IF r.ret # 0 THEN r
    ELSE CASE pc = 1 ->
                AddAbsFrom(2, IF X # A THEN sgx_mpi_copy(r.h, X, A) ELSE r,
                           X, A, B, j)
           [] pc = 2 ->
                AddAbsFrom(3, Ok([r.h EXCEPT ![X].s = 1]), X, A, B,
                           EffLen(r.h[B].p))
           [] pc = 3 -> AddAbsFrom(4, sgx_mpi_grow(r.h, X, j), X, A, B, j)
           [] pc = 4 -> AddLoop(r.h, X, B, 0, j, 0)

sgx_mpi_add_abs(h, X, A0, B0) ==
    AddAbsFrom(1, Ok(h), X,
               IF X = B0 THEN X ELSE A0, IF X = B0 THEN A0 ELSE B0, 0)

\* while( c != 0 ) { z = ( *d < c ); *d -= c; c = z; i++; d++; }
RECURSIVE SubBorrow(_, _, _)
SubBorrow(d, i, c) ==
    IF c = 0 \/ Len(d) = 0 THEN d
    ELSE SubBorrow([d EXCEPT ![i + 1] = (d[i + 1] - c) % LimbMod], i + 1,
                   Lt(d[i + 1], c))

\* for( i = c = 0; i < n; i++, s++, d++ ) { z = ( *d < c ); *d -= c;
\*                                          c = ( *d < *s ) + z; *d -= *s; }
RECURSIVE SubLoop(_, _, _, _, _)
SubLoop(n, s, d, i, c) ==
    IF i >= n THEN SubBorrow(d, n, c)
    ELSE IF c > 2 \/ Len(d) = 0 THEN d
    ELSE LET z == Lt(d[i + 1], c)
             d1 == (d[i + 1] - c) % LimbMod
             c1 == Lt(d1, s[i + 1]) + z
             d2 == (d1 - s[i + 1]) % LimbMod
         IN  SubLoop(n, s, [d EXCEPT ![i + 1] = d2], i + 1, c1)

sgx_mpi_sub_hlp(n, s, d) == SubLoop(n, s, d, 0, 0)

\* mutant of sgx_mpi_sub_abs: no copy of B into TB when X is the object of B
SubAbsInPlace(h, X, A, B) ==
    IF sgx_mpi_cmp_abs(h[A], h[B]) < 0
    THEN Err(POLARSSL_ERR_MPI_NEGATIVE_VALUE, h)
    ELSE Then(IF X # A THEN sgx_mpi_copy(h, X, A) ELSE Ok(h),
              LAMBDA h2:
                Ok([h2 EXCEPT ![X] =
                      [s |-> 1,
                       p |-> sgx_mpi_sub_hlp(EffLen(h2[B].p), h2[B].p, h2[X].p)]]))

sgx_mpi_sub_abs(h, X, A, B0) ==
    IF sgx_mpi_cmp_abs(h[A], h[B0]) < 0
    THEN Err(POLARSSL_ERR_MPI_NEGATIVE_VALUE, h)
    ELSE LET B == IF X = B0 THEN "sub_abs.TB" ELSE B0
         IN  Release(
               Then(IF X = B0 THEN sgx_mpi_copy(h, "sub_abs.TB", B0) ELSE Ok(h),
                    LAMBDA h1:
                      Then(IF X # A THEN sgx_mpi_copy(h1, X, A) ELSE Ok(h1),
                           LAMBDA h2:
                             LET n == EffLen(h2[B].p)
                             IN  Ok([h2 EXCEPT ![X] =
                                      [s |-> 1,
                                       p |-> sgx_mpi_sub_hlp(n, h2[B].p, h2[X].p)]]))),
               {"sub_abs.TB"})

\* mutant of add_mpi: the sign of A is kept when |A| < |B|
AddMpiKeepSign(h, X, A, B) ==
    LET s == h[A].s
    IN  IF h[A].s * h[B].s < 0
        THEN IF sgx_mpi_cmp_abs(h[A], h[B]) >= 0
             THEN Then(sgx_mpi_sub_abs(h, X, A, B),
                       LAMBDA h1: Ok([h1 EXCEPT ![X].s = s]))
             ELSE Then(sgx_mpi_sub_abs(h, X, B, A),
                       LAMBDA h1: Ok([h1 EXCEPT ![X].s = s]))
        ELSE Then(sgx_mpi_add_abs(h, X, A, B),
                  LAMBDA h1: Ok([h1 EXCEPT ![X].s = s]))

sgx_mpi_add_mpi(h, X, A, B) ==
    LET s == h[A].s
    IN  IF h[A].s * h[B].s < 0
        THEN IF sgx_mpi_cmp_abs(h[A], h[B]) >= 0
             THEN Then(sgx_mpi_sub_abs(h, X, A, B),
                       LAMBDA h1: Ok([h1 EXCEPT ![X].s = s]))
             ELSE Then(sgx_mpi_sub_abs(h, X, B, A),
                       LAMBDA h1: Ok([h1 EXCEPT ![X].s = 0 - s]))
        ELSE Then(sgx_mpi_add_abs(h, X, A, B),
                  LAMBDA h1: Ok([h1 EXCEPT ![X].s = s]))

sgx_mpi_sub_mpi(h, X, A, B) ==
    LET s == h[A].s
    IN  IF h[A].s * h[B].s > 0
        THEN IF sgx_mpi_cmp_abs(h[A], h[B]) >= 0
             THEN Then(sgx_mpi_sub_abs(h, X, A, B),
                       LAMBDA h1: Ok([h1 EXCEPT ![X].s = s]))
             ELSE Then(sgx_mpi_sub_abs(h, X, B, A),
                       LAMBDA h1: Ok([h1 EXCEPT ![X].s = 0 - s]))
        ELSE Then(sgx_mpi_add_abs(h, X, A, B),
                  LAMBDA h1: Ok([h1 EXCEPT ![X].s = s]))

sgx_mpi_add_int(h, X, A, b) ==
    Release(sgx_mpi_add_mpi([h EXCEPT !["add_int._B"] = IntView(b)],
                            X, A, "add_int._B"),
            {"add_int._B"})

sgx_mpi_sub_int(h, X, A, b) ==
    Release(sgx_mpi_sub_mpi([h EXCEPT !["sub_int._B"] = IntView(b)],
                            X, A, "sub_int._B"),
            {"sub_int._B"})

(***************************************************************************)
(* Multiplicative layer                                                    *)
(***************************************************************************)
\* one multiply-accumulate step: ( c, *d ) := *s * b + c + *d
MULADDC_CORE(sk, b, c, dk) ==
    LET r == sk * b
        r0 == r % LimbMod
        r1 == r \div LimbMod
        r0a == (r0 + c) % LimbMod
        r1a == r1 + Lt(r0a, c)
        r0b == (r0a + dk) % LimbMod
        r1b == r1a + Lt(r0b, dk)
    IN  [c |-> r1b % LimbMod, d |-> r0b]

\* the core loop over s[0 .. i-1] into d[off ..]
\* do { *d += c; c = ( *d < c ); d++; } while( c != 0 );
RECURSIVE MulCarry(_, _, _)
MulCarry(d, pos, c) ==
    LET d1 == [d EXCEPT ![pos + 1] = (@ + c) % LimbMod]
        c1 == Lt(d1[pos + 1], c)
    IN  IF c1 = 0 THEN d1 ELSE MulCarry(d1, pos + 1, c1)

\* the core loop over s[0 .. i-1] into d[off ..], then the carry loop; m is
\* the pair ( c, *d ) of the step k - 1
RECURSIVE MulLoop(_, _, _, _, _, _, _)
MulLoop(i, s, d, off, b, k, c) ==
    IF k >= i THEN MulCarry(d, off + i, c)
    ELSE IF c < LimbMod /\ Len(d) > 0
    THEN MulLoop(i, s,
                 [d EXCEPT ![off + k + 1] = MULADDC_CORE(s[k + 1], b, c, @).d],
                 off, b, k + 1,
                 MULADDC_CORE(s[k + 1], b, c, d[off + k + 1]).c)
    ELSE d

\* d is the whole destination buffer and off the offset of the pointer d
sgx_mpi_mul_hlp(i, s, d, off, b) == MulLoop(i, s, d, off, b, 0, 0)

\* for( i++; j > 0; j-- ) mul_hlp( i - 1, A->p, X->p + j - 1, B->p[j - 1] );
RECURSIVE MulRows(_, _, _, _, _)
MulRows(i, ap, bp, xp, j) ==
    IF j = 0 \/ Len(xp) = 0 THEN xp
    ELSE MulRows(i, ap, bp, sgx_mpi_mul_hlp(i, ap, xp, j - 1, bp[j]), j - 1)

\* the statements of mul_mpi, pc the one to run next on the status and memory
\* r left by the one before; A and B are the operands after the copies to TA
\* and TB, i and j the locals of those names
RECURSIVE MulFrom(_, _, _, _, _, _, _, _, _)
MulFrom(pc, r, X, A0, B0, A, B, i, j) ==
    IF r.ret # 0 THEN r
    ELSE CASE pc = 1 ->
                MulFrom(2, IF X = A0 THEN sgx_mpi_copy(r.h, "mul_mpi.TA", A0) ELSE r,
                        X, A0, B0, A, B, i, j)
           [] pc = 2 ->
                MulFrom(3, IF X = B0 THEN sgx_mpi_copy(r.h, "mul_mpi.TB", B0) ELSE r,
                        X, A0, B0, A, B, i, j)
           [] pc = 3 ->
                MulFrom(4, r, X, A0, B0, A, B, EffLen(r.h[A].p), EffLen(r.h[B].p))
           [] pc = 4 ->
                MulFrom(5, sgx_mpi_grow(r.h, X, i + j), X, A0, B0, A, B, i, j)
           [] pc = 5 ->
                MulFrom(6, sgx_mpi_lset(r.h, X, 0), X, A0, B0, A, B, i, j)
           [] pc = 6 ->
                Ok([r.h EXCEPT ![X] =
                      [s |-> r.h[A].s * r.h[B].s,
                       p |-> MulRows(i, r.h[A].p, r.h[B].p, r.h[X].p, j)]])

sgx_mpi_mul_mpi(h, X, A0, B0) ==
    Release(MulFrom(1, Ok(h), X, A0, B0,
                    IF X = A0 THEN "mul_mpi.TA" ELSE A0,
                    IF X = B0 THEN "mul_mpi.TB" ELSE B0, 0, 0),
            {"mul_mpi.TA", "mul_mpi.TB"})

\* b is converted to t_uint: p[0] = b
sgx_mpi_mul_int(h, X, A, b) ==
    Release(sgx_mpi_mul_mpi([h EXCEPT !["mul_int._B"] =
                                [s |-> 1, p |-> << b % LimbMod >>]],
                            X, A, "mul_int._B"),
            {"mul_int._B"})

(***************************************************************************)
(* Import from an ASCII string: a string is the sequence of its character  *)
(* codes                                                                   *)
(***************************************************************************)
\* *d = 255; then the digit value of c when c is 0-9, A-F or a-f
DigitValue(c) ==
    IF c >= 97 /\ c <= 102 THEN c - 87
    ELSE IF c >= 65 /\ c <= 70 THEN c - 55
    ELSE IF c >= 48 /\ c <= 57 THEN c - 48
    ELSE 255

\* the status of get_digit: *d >= radix is an invalid character
sgx_mpi_get_digit(radix, c) ==
    IF DigitValue(c) >= radix THEN POLARSSL_ERR_MPI_INVALID_CHARACTER ELSE 0

\* 2 * ciL: the number of hexadecimal digits in a limb
HexPerLimb == biL \div 4

\* for( i = slen, j = 0; i > 0; i--, j++ ) { if( i == 1 && s[i - 1] == '-' )
\* { X->s = -1; break; } get_digit( &d, radix, s[i - 1] );
\* X->p[j / ( 2 * ciL )] |= d << ( ( j % ( 2 * ciL ) ) << 2 ); }
RECURSIVE ReadHex(_, _, _, _, _)
ReadHex(r, X, s, i, j) ==
    IF r.ret # 0 \/ i = 0 THEN r
    ELSE IF i = 1 /\ s[i] = 45 THEN Ok([r.h EXCEPT ![X].s = 0 - 1])
    ELSE IF sgx_mpi_get_digit(16, s[i]) # 0
    THEN Err(sgx_mpi_get_digit(16, s[i]), r.h)
    ELSE ReadHex(Ok([r.h EXCEPT ![X].p[j \div HexPerLimb + 1] =
                       BitOr(@, Shl(DigitValue(s[i]), (j % HexPerLimb) * 4))]),
                 X, s, i - 1, j + 1)

\* for( i = 0; i < slen; i++ ) { if( i == 0 && s[i] == '-' ) { X->s = -1;
\* continue; } get_digit( &d, radix, s[i] ); mul_int( &T, X, radix );
\* if( X->s == 1 ) add_int( X, &T, d ); else sub_int( X, &T, d ); }
\* pc is the statement of the loop body to run next on the status and memory r
\* left by the one before
RECURSIVE ReadDigits(_, _, _, _, _, _)
ReadDigits(pc, r, X, radix, s, i) ==
    IF r.ret # 0 THEN r
    ELSE CASE pc = 1 ->
                IF i >= Len(s) THEN r
                ELSE IF i = 0 /\ s[i + 1] = 45
                THEN ReadDigits(1, Ok([r.h EXCEPT ![X].s = 0 - 1]), X, radix, s, i + 1)
                ELSE IF sgx_mpi_get_digit(radix, s[i + 1]) # 0
                THEN Err(sgx_mpi_get_digit(radix, s[i + 1]), r.h)
                ELSE ReadDigits(2, sgx_mpi_mul_int(r.h, "read_string.T", X, radix),
                                X, radix, s, i)
           [] pc = 2 ->
                ReadDigits(1,
                           IF r.h[X].s = 1
                           THEN sgx_mpi_add_int(r.h, X, "read_string.T",
                                                DigitValue(s[i + 1]))
                           ELSE sgx_mpi_sub_int(r.h, X, "read_string.T",
                                                DigitValue(s[i + 1])),
                           X, radix, s, i + 1)

sgx_mpi_read_string(h, X, radix, s) ==
    IF radix < 2 \/ radix > 16
    THEN Err(POLARSSL_ERR_MPI_BAD_INPUT_DATA, h)
    ELSE IF radix = 16
    THEN ReadHex(Then(sgx_mpi_grow(h, X, BITS_TO_LIMBS(Len(s) * 4)),
                      LAMBDA h1: sgx_mpi_lset(h1, X, 0)),
                 X, s, Len(s), 0)
    ELSE Release(ReadDigits(1, sgx_mpi_lset(h, X, 0), X, radix, s, 0),
                 {"read_string.T"})

(***************************************************************************)
(* Division                                                                *)
(***************************************************************************)
Limb(h, X, i) == h[X].p[i + 1]
SetLimb(h, X, i, v) == [h EXCEPT ![X].p[i + 1] = v]

\* if( r < m ) { q--, r += d; while( r >= d && r < m ) q--, r += d; }
RECURSIVE QrFix(_, _, _, _)
QrFix(q, r, d, m) ==
    IF r >= d /\ r < m
    THEN QrFix((q - 1) % LimbMod, (r + d) % LimbMod, d, m)
    ELSE [q |-> q, r |-> r]

QrStep(q, r, d, m) ==
    IF r < m
    THEN QrFix((q - 1) % LimbMod, (r + d) % LimbMod, d, m)
    ELSE [q |-> q, r |-> r]

\* __udiv_qrnnd_c on the words n1 = X.p[i], n0 = X.p[i - 1], d = Y.p[t],
\* every intermediate held in a t_uint
udiv_qrnnd(n1, n0, d) ==
    LET d0 == Shr(Shl(d, biH), biH)
        d1 == Shr(d, biH)
        q1a == n1 \div d1
        r1a == BitOr(Shl((n1 - d1 * q1a) % LimbMod, biH), Shr(n0, biH))
        m1 == (q1a * d0) % LimbMod
        f1 == QrStep(q1a, r1a, d, m1)
        r1 == (f1.r - m1) % LimbMod
        q0a == r1 \div d1
        r0a == BitOr(Shl((r1 - d1 * q0a) % LimbMod, biH), Shr(Shl(n0, biH), biH))
        m0 == (q0a * d0) % LimbMod
        f0 == QrStep(q0a, r0a, d, m0)
    IN  BitOr(Shl(f1.q, biH), f0.q)

\* while( cmp_mpi( &X, &Y ) >= 0 ) { Z.p[n - t]++; sub_mpi( &X, &X, &Y ); }
RECURSIVE DivTop(_, _)
DivTop(h, nt) ==
    IF sgx_mpi_cmp_mpi(h["div.X"], h["div.Y"]) >= 0
    THEN Then(sgx_mpi_sub_mpi(
                SetLimb(h, "div.Z", nt, (Limb(h, "div.Z", nt) + 1) % LimbMod),
                "div.X", "div.X", "div.Y"),
              LAMBDA h1: DivTop(h1, nt))
    ELSE Ok(h)

\* do { Z.p[i - t - 1]--; T1 := Y[t-1 .. t] * Z.p[i - t - 1]; T2 := X[i-2 .. i]; }
\* while( cmp_mpi( &T1, &T2 ) > 0 );
\* pc is the statement of the loop body to run next on the status and memory r
\* left by the one before
RECURSIVE DivCorrectFrom(_, _, _, _)
DivCorrectFrom(pc, r, i, t) ==
    IF r.ret # 0 THEN r
    ELSE CASE pc = 1 ->
                DivCorrectFrom(2,
                  sgx_mpi_lset(SetLimb(r.h, "div.Z", i - t - 1,
                                       (Limb(r.h, "div.Z", i - t - 1) - 1) % LimbMod),
                               "div.T1", 0),
                  i, t)
           [] pc = 2 ->
                DivCorrectFrom(3,
                  sgx_mpi_mul_int(
                    SetLimb(SetLimb(r.h, "div.T1", 0,
                                    IF t < 1 THEN 0 ELSE Limb(r.h, "div.Y", t - 1)),
                            "div.T1", 1, Limb(r.h, "div.Y", t)),
                    "div.T1", "div.T1", Limb(r.h, "div.Z", i - t - 1)),
                  i, t)
           [] pc = 3 -> DivCorrectFrom(4, sgx_mpi_lset(r.h, "div.T2", 0), i, t)
           [] pc = 4 ->
                DivCorrectFrom(5,
                  Ok(SetLimb(SetLimb(SetLimb(r.h, "div.T2", 0,
                       IF i < 2 THEN 0 ELSE Limb(r.h, "div.X", i - 2)),
                       "div.T2", 1,
                       IF i < 1 THEN 0 ELSE Limb(r.h, "div.X", i - 1)),
                       "div.T2", 2, Limb(r.h, "div.X", i))),
                  i, t)
           [] pc = 5 ->
                IF sgx_mpi_cmp_mpi(r.h["div.T1"], r.h["div.T2"]) > 0
                THEN DivCorrectFrom(1, r, i, t)
                ELSE r

DivCorrect(h, i, t) == DivCorrectFrom(1, Ok(h), i, t)

\* the quotient-digit estimate stored in Z.p[i - t - 1]
QuotientEstimate(h, i, t) ==
    IF Limb(h, "div.X", i) >= Limb(h, "div.Y", t)
    THEN LimbMod - 1
    ELSE udiv_qrnnd(Limb(h, "div.X", i), Limb(h, "div.X", i - 1), Limb(h, "div.Y", t))

\* one iteration of for( i = n; i > t; i-- ): pc is the statement to run next
\* on the status and memory r left by the one before
RECURSIVE DivStepFrom(_, _, _, _)
DivStepFrom(pc, r, i, t) ==
    IF r.ret # 0 THEN r
    ELSE CASE pc = 1 ->
                DivStepFrom(2,
                  DivCorrect(SetLimb(r.h, "div.Z", i - t - 1,
                                     (QuotientEstimate(r.h, i, t) + 1) % LimbMod),
                             i, t),
                  i, t)
           [] pc = 2 ->
                DivStepFrom(3,
                  sgx_mpi_mul_int(r.h, "div.T1", "div.Y", Limb(r.h, "div.Z", i - t - 1)),
                  i, t)
           [] pc = 3 ->
                DivStepFrom(4, sgx_mpi_shift_l(r.h, "div.T1", biL * (i - t - 1)), i, t)
           [] pc = 4 ->
                DivStepFrom(5, sgx_mpi_sub_mpi(r.h, "div.X", "div.X", "div.T1"), i, t)
           [] pc = 5 ->
                IF sgx_mpi_cmp_int(r.h["div.X"], 0) < 0
                THEN DivStepFrom(6, sgx_mpi_copy(r.h, "div.T1", "div.Y"), i, t)
                ELSE r
           [] pc = 6 ->
                DivStepFrom(7, sgx_mpi_shift_l(r.h, "div.T1", biL * (i - t - 1)), i, t)
           [] pc = 7 ->
                DivStepFrom(8, sgx_mpi_add_mpi(r.h, "div.X", "div.X", "div.T1"), i, t)
           [] pc = 8 ->
                Ok(SetLimb(r.h, "div.Z", i - t - 1,
                           (Limb(r.h, "div.Z", i - t - 1) - 1) % LimbMod))

DivStep(h, i, t) == DivStepFrom(1, Ok(h), i, t)

RECURSIVE DivLoop(_, _, _)
DivLoop(h, i, t) ==
    IF i > t THEN Then(DivStep(h, i, t), LAMBDA h1: DivLoop(h1, i - 1, t))
    ELSE Ok(h)

\* k = msb( &Y ) % biL; if( k < biL - 1 ) k = biL - 1 - k; else k = 0;
NormShift(Y) ==
    LET k == sgx_mpi_msb(Y) % biL
    IN  IF k < biL - 1 THEN biL - 1 - k ELSE 0

DivLocals == {"div.X", "div.Y", "div.Z", "div.T1", "div.T2"}

\* the statements of the main path of div_mpi: pc is the one to run next on
\* the status and memory r left by the one before; k, n and t are the locals
\* of those names
RECURSIVE DivFrom(_, _, _, _, _, _, _, _, _)
DivFrom(pc, r, Q, R, A, B, k, n, t) ==
    IF r.ret # 0 THEN r
    ELSE CASE pc = 1 ->
                DivFrom(2, sgx_mpi_copy(r.h, "div.X", A), Q, R, A, B, k, n, t)
           [] pc = 2 ->
                DivFrom(3, sgx_mpi_copy(r.h, "div.Y", B), Q, R, A, B, k, n, t)
           [] pc = 3 ->
                DivFrom(4, sgx_mpi_grow([r.h EXCEPT !["div.X"].s = 1, !["div.Y"].s = 1],
                                        "div.Z", Len(r.h[A].p) + 2),
                        Q, R, A, B, k, n, t)
           [] pc = 4 ->
                DivFrom(5, sgx_mpi_lset(r.h, "div.Z", 0), Q, R, A, B, k, n, t)
           [] pc = 5 ->
                DivFrom(6, sgx_mpi_grow(r.h, "div.T1", 2), Q, R, A, B, k, n, t)
           [] pc = 6 ->
                DivFrom(7, sgx_mpi_grow(r.h, "div.T2", 3), Q, R, A, B,
                        NormShift(r.h["div.Y"]), n, t)
           [] pc = 7 ->
                DivFrom(8, IF k > 0 THEN sgx_mpi_shift_l(r.h, "div.X", k) ELSE r,
                        Q, R, A, B, k, n, t)
           [] pc = 8 ->
                DivFrom(9, IF k > 0 THEN sgx_mpi_shift_l(r.h, "div.Y", k) ELSE r,
                        Q, R, A, B, k, n, t)
           [] pc = 9 ->
                DivFrom(10, r, Q, R, A, B, k,
                        Len(r.h["div.X"].p) - 1, Len(r.h["div.Y"].p) - 1)
           [] pc = 10 ->
                DivFrom(11, sgx_mpi_shift_l(r.h, "div.Y", biL * (n - t)),
                        Q, R, A, B, k, n, t)
           [] pc = 11 ->
                DivFrom(12, DivTop(r.h, n - t), Q, R, A, B, k, n, t)
           [] pc = 12 ->
                DivFrom(13, sgx_mpi_shift_r(r.h, "div.Y", biL * (n - t)),
                        Q, R, A, B, k, n, t)
           [] pc = 13 ->
                DivFrom(14, DivLoop(r.h, n, t), Q, R, A, B, k, n, t)
           [] pc = 14 ->
                DivFrom(15, IF Q # NULL THEN sgx_mpi_copy(r.h, Q, "div.Z") ELSE r,
                        Q, R, A, B, k, n, t)
           [] pc = 15 ->
                DivFrom(16, IF Q # NULL
                            THEN Ok([r.h EXCEPT ![Q].s = r.h[A].s * r.h[B].s])
                            ELSE r,
                        Q, R, A, B, k, n, t)
           [] pc = 16 ->
                IF R # NULL
                THEN DivFrom(17, sgx_mpi_shift_r(r.h, "div.X", k), Q, R, A, B, k, n, t)
                ELSE r
           [] pc = 17 ->
                DivFrom(18, sgx_mpi_copy([r.h EXCEPT !["div.X"].s = r.h[A].s],
                                         R, "div.X"),
                        Q, R, A, B, k, n, t)
           [] pc = 18 ->
                IF sgx_mpi_cmp_int(r.h[R], 0) = 0
                THEN Ok([r.h EXCEPT ![R].s = 1])
                ELSE r

DivMain(h, Q, R, A, B) == DivFrom(1, Ok(h), Q, R, A, B, 0, 0, 0)

sgx_mpi_div_mpi(h, Q, R, A, B) ==
    IF sgx_mpi_cmp_int(h[B], 0) = 0
    THEN Err(POLARSSL_ERR_MPI_DIVISION_BY_ZERO, h)
    ELSE IF sgx_mpi_cmp_abs(h[A], h[B]) < 0
    THEN Release(
           Then(IF Q # NULL THEN sgx_mpi_lset(h, Q, 0) ELSE Ok(h),
                LAMBDA h1: IF R # NULL THEN sgx_mpi_copy(h1, R, A) ELSE Ok(h1)),
           DivLocals)
    ELSE Release(DivMain(h, Q, R, A, B), DivLocals)

\* at most 2^k passes of while( cmp_int( R, 0 ) < 0 ) add_mpi( R, R, B )
RECURSIVE ModUpPasses(_, _, _, _)
ModUpPasses(r, R, B, k) ==
    IF r.ret # 0 \/ sgx_mpi_cmp_int(r.h[R], 0) >= 0 THEN r
    ELSE IF k = 0 THEN sgx_mpi_add_mpi(r.h, R, R, B)
    ELSE ModUpPasses(ModUpPasses(r, R, B, k - 1), R, B, k - 1)

\* the loop, run as 1, 2, 4, ... passes until its condition fails
RECURSIVE ModUpFrom(_, _, _, _)
ModUpFrom(r, R, B, k) ==
    IF r.ret # 0 \/ sgx_mpi_cmp_int(r.h[R], 0) >= 0 THEN r
    ELSE ModUpFrom(ModUpPasses(r, R, B, k), R, B, k + 1)

\* while( cmp_int( R, 0 ) < 0 ) add_mpi( R, R, B );
ModUp(h, R, B) == ModUpFrom(Ok(h), R, B, 0)

\* at most 2^k passes of while( cmp_mpi( R, B ) >= 0 ) sub_mpi( R, R, B )
RECURSIVE ModDownPasses(_, _, _, _)
ModDownPasses(r, R, B, k) ==
    IF r.ret # 0 \/ sgx_mpi_cmp_mpi(r.h[R], r.h[B]) < 0 THEN r
    ELSE IF k = 0 THEN sgx_mpi_sub_mpi(r.h, R, R, B)
    ELSE ModDownPasses(ModDownPasses(r, R, B, k - 1), R, B, k - 1)

\* the loop, run as 1, 2, 4, ... passes until its condition fails
RECURSIVE ModDownFrom(_, _, _, _)
ModDownFrom(r, R, B, k) ==
    IF r.ret # 0 \/ sgx_mpi_cmp_mpi(r.h[R], r.h[B]) < 0 THEN r
    ELSE ModDownFrom(ModDownPasses(r, R, B, k), R, B, k + 1)

\* mutant of ModDown: subtracts B at most once
ModDownOnce(h, R, B) ==
    IF sgx_mpi_cmp_mpi(h[R], h[B]) >= 0
    THEN sgx_mpi_sub_mpi(h, R, R, B)
    ELSE Ok(h)

\* while( cmp_mpi( R, B ) >= 0 ) sub_mpi( R, R, B );
ModDown(h, R, B) == ModDownFrom(Ok(h), R, B, 0)

sgx_mpi_mod_mpi(h, R, A, B) ==
    IF sgx_mpi_cmp_int(h[B], 0) < 0
    THEN Err(POLARSSL_ERR_MPI_NEGATIVE_VALUE, h)
    ELSE Then(sgx_mpi_div_mpi(h, NULL, R, A, B), LAMBDA h1:
         Then(ModUp(h1, R, B), LAMBDA h2: ModDown(h2, R, B)))

(***************************************************************************)
(* Montgomery arithmetic                                                   *)
(***************************************************************************)
\* the outcome of a read through a NULL limb pointer
SIGSEGV == 0 - 2000

\* for( i = biL; i >= 8; i /= 2 ) x *= ( 2 - ( m0 * x ) );
RECURSIVE MontgNewton(_, _, _)
MontgNewton(x, m0, i) ==
    IF i >= 8
    THEN MontgNewton((x * (2 - m0 * x)) % LimbMod, m0, i \div 2)
    ELSE x

\* x = m0; x += ( ( m0 + 2 ) & 4 ) << 1; ...; *mm = ~x + 1;
sgx_mpi_montg_init(N) ==
    LET m0 == N.p[1]
        x0 == (m0 + Shl(((((m0 + 2) % LimbMod) \div 4) % 2) * 4, 1)) % LimbMod
    IN  (LimbMod - MontgNewton(x0, m0, biL)) % LimbMod

\* for( i = 0; i < n; i++ ) { u0 = A->p[i]; u1 = ( d[0] + u0 * B->p[0] ) * mm;
\*     mul_hlp( m, B->p, d, u0 ); mul_hlp( n, N->p, d, u1 );
\*     *d++ = u0; d[n + 1] = 0; }          with d = T->p + i, t the buffer of T
RECURSIVE MontLoop(_, _, _, _, _, _, _, _)
MontLoop(ap, bp, np, mm, t, i, n, m) ==
    IF i >= n \/ Len(t) = 0 THEN t
    ELSE LET u0 == ap[i + 1]
             u1 == ((t[i + 1] + u0 * bp[1]) * mm) % LimbMod
             t1 == sgx_mpi_mul_hlp(m, bp, t, i, u0)
             t2 == sgx_mpi_mul_hlp(n, np, t1, i, u1)
         IN  MontLoop(ap, bp, np, mm,
                      [t2 EXCEPT ![i + 1] = u0, ![i + n + 3] = 0],
                      i + 1, n, m)

\* the mutant of MontReduce: no subtraction at the end
MontNoReduce(a, np, t) == [a |-> a, t |-> t]

\* A = A * B * R^-1 mod N on the limb buffers of A, B, N and a scratch T of
\* tn limbs; B is only read and A only written after the loop, so B may be A.
\* a is the buffer left in A and t the one left in T.
\* if( cmp_abs( A, N ) >= 0 ) sub_hlp( n, N->p, A->p );
\* else sub_hlp( n, A->p, T->p );          (the second keeps the timing equal)
MontReduce(a, np, t) ==
    IF sgx_mpi_cmp_abs([s |-> 1, p |-> a], [s |-> 1, p |-> np]) >= 0
    THEN [a |-> sgx_mpi_sub_hlp(Len(np), np, a), t |-> t]
    ELSE [a |-> a, t |-> sgx_mpi_sub_hlp(Len(np), a, t)]

\* memcpy( A->p, d, ( n + 1 ) * ciL ) with d = T->p + n, then the reduction
MontCopy(ap, np, t) ==
    IF Len(t) = 0 THEN [a |-> ap, t |-> t]
    ELSE MontReduce(SubSeq(t, Len(np) + 1, 2 * Len(np) + 1)
                      \o SubSeq(ap, Len(np) + 2, Len(ap)),
                    np, t)

sgx_mpi_montmul(ap, bp, np, mm, tn) ==
    IF Len(ap) = 0 \/ Len(bp) = 0 THEN [a |-> ap, t |-> Zeros(tn)]
    ELSE MontCopy(ap, np,
                  MontLoop(ap, bp, np, mm, Zeros(tn), 0, Len(np), Min(Len(bp), Len(np))))

\* U.n = U.s = 1; U.p = &z with z = 1
sgx_mpi_montred(ap, np, mm, tn) == sgx_mpi_montmul(ap, <<1>>, np, mm, tn)

\* The limbs montmul touches.  Each operator follows the loop of the same
\* name on a buffer long enough to hold every access and gives the index
\* (from 0) of the last limb the loop reads or writes.
Max(a, b) == IF a < b THEN b ELSE a

\* do { *d += c; c = ( *d < c ); d++; } while( c != 0 );
RECURSIVE MulCarryLast(_, _, _)
MulCarryLast(d, pos, c) ==
    IF pos + 1 > Len(d) THEN pos
    ELSE IF Lt((d[pos + 1] + c) % LimbMod, c) = 0 THEN pos
    ELSE MulCarryLast(d, pos + 1, Lt((d[pos + 1] + c) % LimbMod, c))

RECURSIVE MulLoopLast(_, _, _, _, _, _, _)
MulLoopLast(i, s, d, off, b, k, c) ==
    IF k >= i THEN MulCarryLast(d, off + i, c)
    ELSE IF off + k + 1 > Len(d) THEN off + k
    ELSE MulLoopLast(i, s,
                     [d EXCEPT ![off + k + 1] = MULADDC_CORE(s[k + 1], b, c, @).d],
                     off, b, k + 1,
                     MULADDC_CORE(s[k + 1], b, c, d[off + k + 1]).c)

\* while( c != 0 ) { z = ( *d < c ); *d -= c; c = z; i++; d++; }
RECURSIVE SubBorrowLast(_, _, _)
SubBorrowLast(d, i, c) ==
    IF c = 0 THEN i - 1
    ELSE IF i + 1 > Len(d) THEN i
    ELSE SubBorrowLast(d, i + 1, Lt(d[i + 1], c))

RECURSIVE SubLoopLast(_, _, _, _, _)
SubLoopLast(n, s, d, i, c) ==
    IF i >= n THEN SubBorrowLast(d, n, c)
    ELSE IF i + 1 > Len(d) THEN i
    ELSE LET z == Lt(d[i + 1], c)
             d1 == (d[i + 1] - c) % LimbMod
         IN  SubLoopLast(n, s, [d EXCEPT ![i + 1] = (d1 - s[i + 1]) % LimbMod],
                         i + 1, Lt(d1, s[i + 1]) + z)

\* the mutant of MontLoopLast: the clear of the last round is d[n + 2] = 0
MontLoopClearFar(ap, bp, np, mm, t, i, n, m, last) == 2 * n + 2

\* the two passes of each round and the clear d[n + 1] = 0 after *d++ = u0
RECURSIVE MontLoopLast(_, _, _, _, _, _, _, _, _)
MontLoopLast(ap, bp, np, mm, t, i, n, m, last) ==
    IF i >= n THEN last
    ELSE LET u0 == ap[i + 1]
             u1 == ((t[i + 1] + u0 * bp[1]) * mm) % LimbMod
             t1 == sgx_mpi_mul_hlp(m, bp, t, i, u0)
             t2 == sgx_mpi_mul_hlp(n, np, t1, i, u1)
         IN  MontLoopLast(ap, bp, np, mm,
                          [t2 EXCEPT ![i + 1] = u0, ![i + n + 3] = 0],
                          i + 1, n, m,
                          Max(Max(last, i + n + 2),
                              Max(MulLoopLast(m, bp, t, i, u0, 0, 0),
                                  MulLoopLast(n, np, t1, i, u1, 0, 0))))

\* the last limbs of T and of A that montmul touches after the loop: the
\* memcpy of n + 1 limbs from T + n into A, then the real subtraction in A
\* or the dummy one in T
MontTailLast(a, np, t) ==
    IF sgx_mpi_cmp_abs([s |-> 1, p |-> a], [s |-> 1, p |-> np]) >= 0
    THEN [t |-> 2 * Len(np),
          a |-> Max(Len(np), SubLoopLast(Len(np), np, a, 0, 0))]
    ELSE [t |-> Max(2 * Len(np), SubLoopLast(Len(np), a, t, 0, 0)),
          a |-> Len(np)]

\* the last limb of T and the last limb of A that montmul touches; the
\* buffers are followed with room for two limbs more than exp_mod gives them
MontLast(ap, bp, np, mm) ==
    LET n == Len(np)
        room == 2 * n + 4
        t == MontLoop(ap \o <<0, 0>>, bp, np, mm, Zeros(room), 0, n, Min(Len(bp), n))
        tail == MontTailLast(SubSeq(t, n + 1, 2 * n + 1), np, t)
    IN  [t |-> Max(tail.t,
                   MontLoopLast(ap \o <<0, 0>>, bp, np, mm, Zeros(room), 0, n,
                                Min(Len(bp), n), 0)),
         a |-> tail.a]

(***************************************************************************)
(* Sliding-window exponentiation                                           *)
(***************************************************************************)
ExpLocals == {"exp_mod.RR", "exp_mod.T", "exp_mod.Apos", "exp_mod.W1"}

\* wsize from i = msb( E ), capped by POLARSSL_MPI_WINDOW_SIZE
WindowSize(i) ==
    LET w == IF i > 671 THEN 6 ELSE IF i > 239 THEN 5
             ELSE IF i > 79 THEN 4 ELSE IF i > 23 THEN 3 ELSE 1
    IN  IF w > POLARSSL_MPI_WINDOW_SIZE THEN POLARSSL_MPI_WINDOW_SIZE ELSE w

\* grow( &W[i], N->n + 1 ) and copy( &W[i], src ) on a zeroed table entry
TableEntry(src, n) ==
    LET i == TopIndex(src) + 1
        l == IF i > n + 1 THEN i ELSE n + 1
    IN  SubSeq(src, 1, i) \o Zeros(l - i)

\* cnt times montmul( X, X, N, mm, &T )
RECURSIVE MontSquare(_, _, _, _, _)
MontSquare(x, np, mm, tn, cnt) ==
    IF cnt = 0 \/ Len(x) = 0 THEN x
    ELSE MontSquare(sgx_mpi_montmul(x, x, np, mm, tn).a, np, mm, tn, cnt - 1)

\* for( i = j + 1; i < ( one << wsize ); i++ ) W[i] = W[i - 1] * W[1]:
\* the entries lo .. hi - 1.  The range is halved so that the evaluation stays
\* shallow.
RECURSIVE TableFill(_, _, _, _, _, _, _)
TableFill(w, lo, hi, n, np, mm, tn) ==
    IF hi <= lo \/ DOMAIN w = {} THEN w
    ELSE IF hi = lo + 1
    THEN w @@ (lo :> sgx_mpi_montmul(TableEntry(w[lo - 1], n), w[1], np, mm, tn).a)
    ELSE TableFill(TableFill(w, lo, (lo + hi) \div 2, n, np, mm, tn),
                   (lo + hi) \div 2, hi, n, np, mm, tn)

\* the table W: W[1], and for wsize > 1 the entries 2^(wsize-1) .. 2^wsize - 1
WindowTable(w1, wsize, n, np, mm, tn) ==
    IF wsize > 1
    THEN LET j == 2^(wsize - 1)
             wj == MontSquare(TableEntry(w1, n), np, mm, tn, wsize - 1)
         IN  TableFill((1 :> w1) @@ (j :> wj), j + 1, 2^wsize, n, np, mm, tn)
    ELSE (1 :> w1)

\* mutant of ExpBitStep: a zero bit after a window is skipped like a leading
\* zero, without squaring X
ExpBitStepNoSquare(k, st, nblimbs, bufsize) ==
    LET ei == (k.ep[nblimbs + 1] \div 2^bufsize) % 2
    IN  IF ei = 0 /\ st.state < 2
        THEN st
        ELSE LET nb == st.nbits + 1
                 wb == BitOr(st.wbits, ei * 2^(k.wsize - nb))
             IN  IF nb = k.wsize
                 THEN [x |-> sgx_mpi_montmul(
                               MontSquare(st.x, k.np, k.mm, k.tn, k.wsize),
                               k.w[wb], k.np, k.mm, k.tn).a,
                       nbits |-> 0, wbits |-> 0, state |-> 1]
                 ELSE [x |-> st.x, nbits |-> nb, wbits |-> wb, state |-> 2]

\* the index of the table entry the iteration multiplies X by: wbits when the
\* bit completes a window ( montmul( X, &W[wbits], ... ) ), 0 when it does not
ExpLookup(k, st, nblimbs, bufsize) ==
    LET ei == (k.ep[nblimbs + 1] \div 2^bufsize) % 2
    IN  IF ei = 0 /\ st.state = 0 THEN 0
        ELSE IF ei = 0 /\ st.state = 1 THEN 0
        ELSE IF st.nbits + 1 = k.wsize
        THEN BitOr(st.wbits, ei * 2^(k.wsize - (st.nbits + 1)))
        ELSE 0

\* mutant of ExpBitStep: the end of a window puts the scan back to state 0
ExpBitStepLeading(k, st, nblimbs, bufsize) ==
    LET ei == (k.ep[nblimbs + 1] \div 2^bufsize) % 2
    IN  IF ei = 0 /\ st.state = 0
        THEN st
        ELSE IF ei = 0 /\ st.state = 1
        THEN st
        ELSE IF st.nbits + 1 = k.wsize
        THEN [x |-> st.x, nbits |-> 0, wbits |-> 0, state |-> 0]
        ELSE [x |-> st.x, nbits |-> st.nbits + 1,
              wbits |-> BitOr(st.wbits, ei * 2^(k.wsize - (st.nbits + 1))),
              state |-> 2]

\* one iteration of the loop while( 1 ) that reaches the bit ei: bit bufsize of
\* the limb E->p[nblimbs]; k holds what the loop only reads (the limbs of E and
\* N, the table W, mm, the sizes) and st what it carries from bit to bit
ExpBitStep(k, st, nblimbs, bufsize) ==
    LET ei == (k.ep[nblimbs + 1] \div 2^bufsize) % 2
    IN  IF ei = 0 /\ st.state = 0
        THEN st
        ELSE IF ei = 0 /\ st.state = 1
        THEN [st EXCEPT !.x = sgx_mpi_montmul(st.x, st.x, k.np, k.mm, k.tn).a]
        ELSE LET nb == st.nbits + 1
                 wb == BitOr(st.wbits, ei * 2^(k.wsize - nb))
             IN  IF nb = k.wsize
                 THEN [x |-> sgx_mpi_montmul(
                               MontSquare(st.x, k.np, k.mm, k.tn, k.wsize),
                               k.w[wb], k.np, k.mm, k.tn).a,
                       nbits |-> 0, wbits |-> 0, state |-> 1]
                 ELSE [x |-> st.x, nbits |-> nb, wbits |-> wb, state |-> 2]

\* the iterations for the bits hi - 1 down to lo of E, counted from bit 0 of
\* E->p[0]: the loop walks nblimbs = i / biL downward and, inside a limb,
\* bufsize = i % biL downward.  The range is halved so that the evaluation
\* stays shallow.
RECURSIVE ExpScan(_, _, _, _)
ExpScan(k, st, lo, hi) ==
    IF hi <= lo \/ st.state < 0 THEN st
    ELSE IF hi = lo + 1 THEN ExpBitStep(k, st, lo \div biL, lo % biL)
    ELSE ExpScan(k, ExpScan(k, st, (lo + hi) \div 2, hi), lo, (lo + hi) \div 2)

\* for( i = 0; i < nbits; i++ ) { montmul( X, X ); wbits <<= 1;
\*     if( ( wbits & ( one << wsize ) ) != 0 ) montmul( X, &W[1] ); }
ExpFlushBit(k, x1, wb) ==
    IF (wb \div 2^k.wsize) % 2 # 0
    THEN sgx_mpi_montmul(x1, k.w[1], k.np, k.mm, k.tn).a
    ELSE x1

RECURSIVE ExpFlush(_, _, _, _, _)
ExpFlush(k, x, i, nbits, wbits) ==
    IF i >= nbits \/ Len(x) = 0 THEN x
    ELSE ExpFlush(k,
                  ExpFlushBit(k, sgx_mpi_montmul(x, x, k.np, k.mm, k.tn).a, wbits * 2),
                  i + 1, nbits, wbits * 2)

\* RR = R^2 mod N, computed on the first call and kept in *_RR when given: the
\* statements of that computation, pc the one to run next on the status and
\* memory r left by the one before
RECURSIVE ExpRR(_, _, _, _)
ExpRR(pc, r, N, _RR) ==
    IF r.ret # 0 THEN r
    ELSE CASE pc = 1 -> ExpRR(2, sgx_mpi_lset(r.h, "exp_mod.RR", 1), N, _RR)
           [] pc = 2 ->
                ExpRR(3, sgx_mpi_shift_l(r.h, "exp_mod.RR", Len(r.h[N].p) * 2 * biL),
                      N, _RR)
           [] pc = 3 ->
                ExpRR(4, sgx_mpi_mod_mpi(r.h, "exp_mod.RR", "exp_mod.RR", N), N, _RR)
           [] pc = 4 ->
                IF _RR # NULL
                THEN Ok([r.h EXCEPT ![_RR] = r.h["exp_mod.RR"]])
                ELSE r

\* if( neg ) { X->s = -1; add_mpi( X, N, X ); }
ExpFixup(h, X, N, neg) ==
    IF neg
    THEN sgx_mpi_add_mpi([h EXCEPT ![X].s = 0 - 1], X, N, X)
    ELSE Ok(h)

\* what the loops only read: the limbs of E and N, mm, the sizes and the table W
ExpKey(h, E, N, l) ==
    [ep |-> h[E].p, np |-> h[N].p, mm |-> l.mm, tn |-> Len(h["exp_mod.T"].p),
     wsize |-> l.wsize,
     w |-> WindowTable(h["exp_mod.W1"].p, l.wsize, l.n, h[N].p, l.mm,
                       Len(h["exp_mod.T"].p))]

\* the limbs of X after the remaining bits are flushed and X is taken out of
\* Montgomery form; sc is what the scan of E left
ExpFinish(k, sc) ==
    IF sc.state < 0 THEN sc.x
    ELSE sgx_mpi_montred(ExpFlush(k, sc.x, 0, sc.nbits, sc.wbits), k.np, k.mm, k.tn).a

\* montred( X ), the scan of the bits of E, the flush and the last montred
ExpLoops(k, xp) ==
    IF k.wsize = 0 THEN xp
    ELSE ExpFinish(k, ExpScan(k, [x |-> sgx_mpi_montred(xp, k.np, k.mm, k.tn).a,
                                  nbits |-> 0, wbits |-> 0, state |-> 0],
                              0, Len(k.ep) * biL))

\* the statements between the argument checks and the cleanup label, for a
\* destination X that is neither E nor N: pc is the one to run next on the
\* status and memory r left by the one before; l holds the locals mm, wsize,
\* n = N->n and neg, and A is A or, for a negative A, the local Apos
RECURSIVE ExpFrom(_, _, _, _, _, _, _, _, _)
ExpFrom(pc, r, X, A0, A, E, N, _RR, l) ==
    IF r.ret # 0 THEN r
    ELSE CASE pc = 1 ->
                ExpFrom(2, sgx_mpi_grow(r.h, X, l.n + 1), X, A0, A, E, N, _RR, l)
           [] pc = 2 ->
                ExpFrom(3, sgx_mpi_grow(r.h, "exp_mod.W1", l.n + 1),
                        X, A0, A, E, N, _RR, l)
           [] pc = 3 ->
                ExpFrom(4, sgx_mpi_grow(r.h, "exp_mod.T", (l.n + 1) * 2),
                        X, A0, A, E, N, _RR, l)
           [] pc = 4 ->
                ExpFrom(5, IF l.neg THEN sgx_mpi_copy(r.h, "exp_mod.Apos", A0) ELSE r,
                        X, A0, A, E, N, _RR, l)
           [] pc = 5 ->
                ExpFrom(6, IF l.neg THEN Ok([r.h EXCEPT !["exp_mod.Apos"].s = 1]) ELSE r,
                        X, A0, A, E, N, _RR, l)
           [] pc = 6 ->
                ExpFrom(7, IF _RR = NULL \/ r.h[_RR].p = <<>>
                           THEN ExpRR(1, r, N, _RR)
                           ELSE Ok([r.h EXCEPT !["exp_mod.RR"] = r.h[_RR]]),
                        X, A0, A, E, N, _RR, l)
           [] pc = 7 ->
                ExpFrom(8, IF sgx_mpi_cmp_mpi(r.h[A], r.h[N]) >= 0
                           THEN sgx_mpi_mod_mpi(r.h, "exp_mod.W1", A, N)
                           ELSE sgx_mpi_copy(r.h, "exp_mod.W1", A),
                        X, A0, A, E, N, _RR, l)
           [] pc = 8 ->
                ExpFrom(9, IF r.h["exp_mod.W1"].p = <<>>
                           THEN Err(SIGSEGV, r.h)
                           ELSE Ok([r.h EXCEPT !["exp_mod.W1"].p =
                                      sgx_mpi_montmul(@, r.h["exp_mod.RR"].p, r.h[N].p,
                                                      l.mm, Len(r.h["exp_mod.T"].p)).a]),
                        X, A0, A, E, N, _RR, l)
           [] pc = 9 ->
                ExpFrom(10, sgx_mpi_copy(r.h, X, "exp_mod.RR"), X, A0, A, E, N, _RR, l)
           [] pc = 10 ->
                ExpFrom(11, Ok([r.h EXCEPT ![X].p = ExpLoops(ExpKey(r.h, E, N, l), @)]),
                        X, A0, A, E, N, _RR, l)
           [] pc = 11 -> ExpFixup(r.h, X, N, l.neg)

ExpMain(h, X, A0, E, N, _RR) ==
    ExpFrom(1, Ok(h), X, A0,
            IF h[A0].s = 0 - 1 THEN "exp_mod.Apos" ELSE A0, E, N, _RR,
            [mm |-> sgx_mpi_montg_init(h[N]),
             wsize |-> WindowSize(sgx_mpi_msb(h[E])),
             n |-> Len(h[N].p),
             neg |-> h[A0].s = 0 - 1])

sgx_mpi_exp_mod(h, X, A, E, N, _RR) ==
    IF sgx_mpi_cmp_int(h[N], 0) < 0
    THEN Err(POLARSSL_ERR_MPI_BAD_INPUT_DATA, h)
    ELSE IF h[N].p = <<>> THEN Err(SIGSEGV, h)
    ELSE IF h[N].p[1] % 2 = 0
    THEN Err(POLARSSL_ERR_MPI_BAD_INPUT_DATA, h)
    ELSE IF sgx_mpi_cmp_int(h[E], 0) < 0
    THEN Err(POLARSSL_ERR_MPI_BAD_INPUT_DATA, h)
    ELSE IF h[E].p = <<>> THEN Err(SIGSEGV, h)
    ELSE Release(ExpMain(h, X, A, E, N, _RR), ExpLocals)

(***************************************************************************)
(* Greatest common divisor and modular inverse                             *)
(***************************************************************************)
GcdLocals == {"gcd.TG", "gcd.TA", "gcd.TB"}

\* while( cmp_int( &TA, 0 ) != 0 ) { ... }: pc is the statement of the loop to
\* run next on the status and memory r left by the one before
RECURSIVE GcdLoop(_, _)
GcdLoop(pc, r) ==
    IF r.ret # 0 THEN r
    ELSE CASE pc = 1 ->
                IF sgx_mpi_cmp_int(r.h["gcd.TA"], 0) # 0
                THEN GcdLoop(2, sgx_mpi_shift_r(r.h, "gcd.TA",
                                                sgx_mpi_lsb(r.h["gcd.TA"])))
                ELSE r
           [] pc = 2 ->
                GcdLoop(3, sgx_mpi_shift_r(r.h, "gcd.TB", sgx_mpi_lsb(r.h["gcd.TB"])))
           [] pc = 3 ->
                IF sgx_mpi_cmp_mpi(r.h["gcd.TA"], r.h["gcd.TB"]) >= 0
                THEN GcdLoop(4, sgx_mpi_sub_abs(r.h, "gcd.TA", "gcd.TA", "gcd.TB"))
                ELSE GcdLoop(5, sgx_mpi_sub_abs(r.h, "gcd.TB", "gcd.TB", "gcd.TA"))
           [] pc = 4 -> GcdLoop(1, sgx_mpi_shift_r(r.h, "gcd.TA", 1))
           [] pc = 5 -> GcdLoop(1, sgx_mpi_shift_r(r.h, "gcd.TB", 1))

\* the statements of gcd up to the cleanup label: pc is the one to run next on
\* the status and memory r left by the one before, lz the local lz
RECURSIVE GcdFrom(_, _, _, _, _, _)
GcdFrom(pc, r, G, A, B, lz) ==
    IF r.ret # 0 THEN r
    ELSE CASE pc = 1 -> GcdFrom(2, sgx_mpi_copy(r.h, "gcd.TA", A), G, A, B, lz)
           [] pc = 2 -> GcdFrom(3, sgx_mpi_copy(r.h, "gcd.TB", B), G, A, B, lz)
           [] pc = 3 ->
                GcdFrom(4, r, G, A, B,
                        Min(sgx_mpi_lsb(r.h["gcd.TB"]), sgx_mpi_lsb(r.h["gcd.TA"])))
           [] pc = 4 -> GcdFrom(5, sgx_mpi_shift_r(r.h, "gcd.TA", lz), G, A, B, lz)
           [] pc = 5 -> GcdFrom(6, sgx_mpi_shift_r(r.h, "gcd.TB", lz), G, A, B, lz)
           [] pc = 6 ->
                GcdFrom(7, GcdLoop(1, Ok([r.h EXCEPT !["gcd.TA"].s = 1,
                                                     !["gcd.TB"].s = 1])),
                        G, A, B, lz)
           [] pc = 7 ->
                GcdFrom(8, IF r.h["gcd.TB"].p = <<>>
                           THEN Err(SIGSEGV, r.h)
                           ELSE sgx_mpi_shift_l(r.h, "gcd.TB", lz),
                        G, A, B, lz)
           [] pc = 8 -> sgx_mpi_copy(r.h, G, "gcd.TB")

sgx_mpi_gcd(h, G, A, B) == Release(GcdFrom(1, Ok(h), G, A, B, 0), GcdLocals)

InvLocals == {"inv_mod.G", "inv_mod.TA", "inv_mod.TU", "inv_mod.U1", "inv_mod.U2",
              "inv_mod.TB", "inv_mod.TV", "inv_mod.V1", "inv_mod.V2"}

\* while( ( T.p[0] & 1 ) == 0 ) { shift_r( &T, 1 ); if( W1 or W2 is odd )
\* { add_mpi( &W1, &W1, &TB ); sub_mpi( &W2, &W2, &TA ); } shift_r( &W1, 1 );
\* shift_r( &W2, 1 ); }        for ( T, W1, W2 ) = ( TU, U1, U2 ) and ( TV, V1, V2 ).
\* The test reads T alone and shift_r leaves a zero T zero: with T = 0 the loop
\* never ends.
RECURSIVE InvHalve(_, _, _, _, _)
InvHalve(pc, r, T, W1, W2) ==
    IF r.ret # 0 THEN r
    ELSE CASE pc = 1 ->
                IF r.h[T].p[1] % 2 = 0
                THEN IF sgx_mpi_cmp_int(r.h[T], 0) = 0
                     THEN Err(DIVERGES, r.h)
                     ELSE InvHalve(2, sgx_mpi_shift_r(r.h, T, 1), T, W1, W2)
                ELSE r
           [] pc = 2 ->
                IF r.h[W1].p[1] % 2 # 0 \/ r.h[W2].p[1] % 2 # 0
                THEN InvHalve(3, sgx_mpi_add_mpi(r.h, W1, W1, "inv_mod.TB"), T, W1, W2)
                ELSE InvHalve(4, r, T, W1, W2)
           [] pc = 3 ->
                InvHalve(4, sgx_mpi_sub_mpi(r.h, W2, W2, "inv_mod.TA"), T, W1, W2)
           [] pc = 4 -> InvHalve(5, sgx_mpi_shift_r(r.h, W1, 1), T, W1, W2)
           [] pc = 5 -> InvHalve(1, sgx_mpi_shift_r(r.h, W2, 1), T, W1, W2)

\* do { ... } while( cmp_int( &TU, 0 ) != 0 ): pc is the statement of the loop
\* body to run next on the status and memory r left by the one before
RECURSIVE InvLoop(_, _)
InvLoop(pc, r) ==
    IF r.ret # 0 THEN r
    ELSE CASE pc = 1 ->
                InvLoop(2, InvHalve(1, r, "inv_mod.TU", "inv_mod.U1", "inv_mod.U2"))
           [] pc = 2 ->
                InvLoop(3, InvHalve(1, r, "inv_mod.TV", "inv_mod.V1", "inv_mod.V2"))
           [] pc = 3 ->
                IF sgx_mpi_cmp_mpi(r.h["inv_mod.TU"], r.h["inv_mod.TV"]) >= 0
                THEN InvLoop(4, sgx_mpi_sub_mpi(r.h, "inv_mod.TU", "inv_mod.TU",
                                                "inv_mod.TV"))
                ELSE InvLoop(6, sgx_mpi_sub_mpi(r.h, "inv_mod.TV", "inv_mod.TV",
                                                "inv_mod.TU"))
           [] pc = 4 ->
                InvLoop(5, sgx_mpi_sub_mpi(r.h, "inv_mod.U1", "inv_mod.U1", "inv_mod.V1"))
           [] pc = 5 ->
                InvLoop(8, sgx_mpi_sub_mpi(r.h, "inv_mod.U2", "inv_mod.U2", "inv_mod.V2"))
           [] pc = 6 ->
                InvLoop(7, sgx_mpi_sub_mpi(r.h, "inv_mod.V1", "inv_mod.V1", "inv_mod.U1"))
           [] pc = 7 ->
                InvLoop(8, sgx_mpi_sub_mpi(r.h, "inv_mod.V2", "inv_mod.V2", "inv_mod.U2"))
           [] pc = 8 ->
                IF sgx_mpi_cmp_int(r.h["inv_mod.TU"], 0) # 0
                THEN InvLoop(1, r)
                ELSE r

\* mutant of InvUp: V1 is left as the loop found it
InvUpNever(h, N) == Ok(h)

\* while( cmp_int( &V1, 0 ) < 0 ) add_mpi( &V1, &V1, N );
RECURSIVE InvUp(_, _)
InvUp(h, N) ==
    IF sgx_mpi_cmp_int(h["inv_mod.V1"], 0) < 0
    THEN Then(sgx_mpi_add_mpi(h, "inv_mod.V1", "inv_mod.V1", N),
              LAMBDA h1: InvUp(h1, N))
    ELSE Ok(h)

\* while( cmp_mpi( &V1, N ) >= 0 ) sub_mpi( &V1, &V1, N );
RECURSIVE InvDown(_, _)
InvDown(h, N) ==
    IF sgx_mpi_cmp_mpi(h["inv_mod.V1"], h[N]) >= 0
    THEN Then(sgx_mpi_sub_mpi(h, "inv_mod.V1", "inv_mod.V1", N),
              LAMBDA h1: InvDown(h1, N))
    ELSE Ok(h)

\* the statements of inv_mod after the test of N, up to the cleanup label: pc
\* is the one to run next on the status and memory r left by the one before
RECURSIVE InvFrom(_, _, _, _, _)
InvFrom(pc, r, X, A, N) ==
    IF r.ret # 0 THEN r
    ELSE CASE pc = 1 -> InvFrom(2, sgx_mpi_gcd(r.h, "inv_mod.G", A, N), X, A, N)
           [] pc = 2 ->
                InvFrom(3, IF sgx_mpi_cmp_int(r.h["inv_mod.G"], 1) # 0
                           THEN Err(POLARSSL_ERR_MPI_NOT_ACCEPTABLE, r.h)
                           ELSE sgx_mpi_mod_mpi(r.h, "inv_mod.TA", A, N),
                        X, A, N)
           [] pc = 3 ->
                InvFrom(4, sgx_mpi_copy(r.h, "inv_mod.TU", "inv_mod.TA"), X, A, N)
           [] pc = 4 -> InvFrom(5, sgx_mpi_copy(r.h, "inv_mod.TB", N), X, A, N)
           [] pc = 5 -> InvFrom(6, sgx_mpi_copy(r.h, "inv_mod.TV", N), X, A, N)
           [] pc = 6 -> InvFrom(7, sgx_mpi_lset(r.h, "inv_mod.U1", 1), X, A, N)
           [] pc = 7 -> InvFrom(8, sgx_mpi_lset(r.h, "inv_mod.U2", 0), X, A, N)
           [] pc = 8 -> InvFrom(9, sgx_mpi_lset(r.h, "inv_mod.V1", 0), X, A, N)
           [] pc = 9 -> InvFrom(10, sgx_mpi_lset(r.h, "inv_mod.V2", 1), X, A, N)
           [] pc = 10 -> InvFrom(11, InvLoop(1, r), X, A, N)
           [] pc = 11 -> InvFrom(12, InvUp(r.h, N), X, A, N)
           [] pc = 12 -> InvFrom(13, InvDown(r.h, N), X, A, N)
           [] pc = 13 -> sgx_mpi_copy(r.h, X, "inv_mod.V1")

sgx_mpi_inv_mod(h, X, A, N) ==
    IF sgx_mpi_cmp_int(h[N], 0) <= 0
    THEN Err(POLARSSL_ERR_MPI_BAD_INPUT_DATA, h)
    ELSE Release(InvFrom(1, Ok(h), X, A, N), InvLocals)

(***************************************************************************)
(* Binary import and export, and the random source                         *)
(*                                                                         *)
(* An unsigned char of the scaled machine has biC bits, so that a limb     *)
(* holds ciL = 2 chars as a t_uint holds sizeof( t_uint ) chars; a buffer  *)
(* of chars is a sequence, buf[i] of the code being buf[i + 1].            *)
(***************************************************************************)
biC == 4
ciL == biL \div biC
CharMod == 2^biC

POLARSSL_MPI_MAX_SIZE == 512
POLARSSL_MPI_MAX_BITS == biC * POLARSSL_MPI_MAX_SIZE
POLARSSL_ERR_MPI_BUFFER_TOO_SMALL == 0 - 8

CHARS_TO_LIMBS(i) == (i + ciL - 1) \div ciL

\* ( msb + 7 ) >> 3 on the scaled chars
SizeOf(msb) == (msb + biC - 1) \div biC

sgx_mpi_size(X) == SizeOf(sgx_mpi_msb(X))

\* size_t is as wide as t_uint
SizeMod == LimbMod

\* msb( X ) on an object with n = 0 and p = NULL: i = X->n - 1 wraps to the
\* largest size_t and X->p[i] is read through the NULL pointer.  The read
\* faults, or it yields some word: one with a bit set ends the first loop at
\* once and the function returns i * biL + j in a size_t.
MsbOfEmpty ==
    {SIGSEGV} \cup {((SizeMod - 1) * biL + j) % SizeMod : j \in 1..biL}

\* the values a call of msb( X ) can return
MsbOutcomes(X) == IF X.p = <<>> THEN MsbOfEmpty ELSE {sgx_mpi_msb(X)}

\* for( n = 0; n < buflen; n++ ) if( buf[n] != 0 ) break;
RECURSIVE LeadingZeros(_, _)
LeadingZeros(buf, n) ==
    IF n < Len(buf) /\ buf[n + 1] = 0 THEN LeadingZeros(buf, n + 1) ELSE n

\* for( i = buflen, j = 0; i > n; i--, j++ )
\*     X->p[j / ciL] |= ( (t_uint) buf[i - 1] ) << ( ( j % ciL ) << 3 );
RECURSIVE ReadBinaryLoop(_, _, _, _, _)
ReadBinaryLoop(p, buf, i, j, n) ==
    IF i <= n \/ Len(p) = 0 THEN p
    ELSE ReadBinaryLoop([p EXCEPT ![j \div ciL + 1] =
                           BitOr(@, Shl(buf[i], (j % ciL) * biC))],
                        buf, i - 1, j + 1, n)

sgx_mpi_read_binary(h, X, buf) ==
    Then(sgx_mpi_grow(h, X, CHARS_TO_LIMBS(Len(buf) - LeadingZeros(buf, 0))),
         LAMBDA h1:
           Then(sgx_mpi_lset(h1, X, 0),
                LAMBDA h2:
                  Ok([h2 EXCEPT ![X].p =
                        ReadBinaryLoop(@, buf, Len(buf), 0, LeadingZeros(buf, 0))])))

\* mutant of WriteBinaryLoop: the least significant char is written first
RECURSIVE WriteBinaryAscending(_, _, _, _, _)
WriteBinaryAscending(buf, p, i, j, n) ==
    IF n = 0 \/ Len(buf) = 0 THEN buf
    ELSE WriteBinaryAscending([buf EXCEPT ![j + 1] =
                                 Shr(p[j \div ciL + 1], (j % ciL) * biC) % CharMod],
                              p, i - 1, j + 1, n - 1)

\* for( i = buflen - 1, j = 0; n > 0; i--, j++, n-- )
\*     buf[i] = (unsigned char)( X->p[j / ciL] >> ( ( j % ciL ) << 3 ) );
RECURSIVE WriteBinaryLoop(_, _, _, _, _)
WriteBinaryLoop(buf, p, i, j, n) ==
    IF n = 0 \/ Len(buf) = 0 THEN buf
    ELSE WriteBinaryLoop([buf EXCEPT ![i + 1] =
                            Shr(p[j \div ciL + 1], (j % ciL) * biC) % CharMod],
                         p, i - 1, j + 1, n - 1)

\* write_binary from n = mpi_size( X ) on: buf holds the buflen chars the
\* caller passes; the result is the status and the chars the call leaves there
WriteBinaryOf(X, buf, n) ==
    IF Len(buf) < n
    THEN [ret |-> POLARSSL_ERR_MPI_BUFFER_TOO_SMALL, buf |-> buf]
    ELSE [ret |-> 0,
          buf |-> WriteBinaryLoop(Zeros(Len(buf)), X.p, Len(buf) - 1, 0, n)]

sgx_mpi_write_binary(X, buf) == WriteBinaryOf(X, buf, sgx_mpi_size(X))

\* The random source sgx_ctr_drbg_random( p_rng, buf, size ) is outside the
\* library.  Its context, the object p_rng points to, is [a, b, pos, left]:
\* char number i of its stream is ( a + b * i ) mod 2^biC, pos is the number of
\* chars handed out and left the number of calls that still succeed.
POLARSSL_ERR_CTR_DRBG_ENTROPY_SOURCE_FAILED == 0 - 52

RngChar(g, i) == (g.a + g.b * i) % CharMod

sgx_ctr_drbg_random(h, p_rng, size) ==
    IF h[p_rng].left = 0
    THEN [ret |-> POLARSSL_ERR_CTR_DRBG_ENTROPY_SOURCE_FAILED, h |-> h, buf |-> <<>>]
    ELSE [ret |-> 0,
          h |-> [h EXCEPT ![p_rng].pos = @ + size, ![p_rng].left = @ - 1],
          buf |-> [i \in 1..size |-> RngChar(h[p_rng], h[p_rng].pos + i - 1)]]

\* the chars buf are on the stack of fill_random
FillRandomRead(X, r) ==
    IF r.ret # 0 THEN Err(r.ret, r.h) ELSE sgx_mpi_read_binary(r.h, X, r.buf \o <<>>)

sgx_mpi_fill_random(h, X, size, p_rng) ==
    IF size > POLARSSL_MPI_MAX_SIZE
    THEN Err(POLARSSL_ERR_MPI_BAD_INPUT_DATA, h)
    ELSE FillRandomRead(X, sgx_ctr_drbg_random(h, p_rng, size))

(***************************************************************************)
(* Modulo by a word, small factors and Miller-Rabin                        *)
(***************************************************************************)
\* y = ( y << biH ) | ( half >> biH ); z = y / b; y -= z * b;
\* with half = x for the upper and half = x << biH for the lower half of x
ModIntStep(y, b) == (y - (((y \div b) * b) % LimbMod)) % LimbMod
ModIntHalf(y, half, b) == ModIntStep(BitOr(Shl(y, biH), Shr(half, biH)), b)

\* for( i = A->n, y = 0; i > 0; i-- ) { x = A->p[i - 1]; ...; x <<= biH; ... }
RECURSIVE ModIntLoop(_, _, _, _)
ModIntLoop(p, i, y, b) ==
    IF i = 0 \/ y >= LimbMod THEN y
    ELSE ModIntLoop(p, i - 1,
                    ModIntHalf(ModIntHalf(y, p[i], b), Shl(p[i], biH), b), b)

\* r is the word *r before the call: an error leaves it as it is
sgx_mpi_mod_int(r, A, b) ==
    IF b = 0 THEN [ret |-> POLARSSL_ERR_MPI_DIVISION_BY_ZERO, r |-> r]
    ELSE IF b < 0 THEN [ret |-> POLARSSL_ERR_MPI_NEGATIVE_VALUE, r |-> r]
    ELSE IF b = 1 THEN [ret |-> 0, r |-> 0]
    ELSE IF b = 2
    THEN IF A.p = <<>> THEN [ret |-> SIGSEGV, r |-> r]
         ELSE [ret |-> 0, r |-> A.p[1] % 2]
    ELSE [ret |-> 0,
          r |-> IF A.s < 0 /\ ModIntLoop(A.p, Len(A.p), 0, b) # 0
                THEN (b - ModIntLoop(A.p, Len(A.p), 0, b)) % LimbMod
                ELSE ModIntLoop(A.p, Len(A.p), 0, b)]

\* The table of the code holds the odd primes below 1000, each of them below
\* 2^biH of the smallest t_uint the library is built for, and ends with a
\* negative entry.  The table of the scaled machine holds the odd primes
\* below its 2^biH.
small_prime == <<3, 5, 7, 11, 13, 0 - 103>>

\* mutant of SmallFactorsFrom: a candidate equal to a table prime is divided
\* by it
RECURSIVE SmallFactorsStrict(_, _)
SmallFactorsStrict(X, i) ==
    IF small_prime[i] <= 0 THEN 0
    ELSE IF sgx_mpi_cmp_int(X, small_prime[i]) < 0 THEN 1
    ELSE IF sgx_mpi_mod_int(0, X, small_prime[i]).ret # 0
    THEN sgx_mpi_mod_int(0, X, small_prime[i]).ret
    ELSE IF sgx_mpi_mod_int(0, X, small_prime[i]).r = 0
    THEN POLARSSL_ERR_MPI_NOT_ACCEPTABLE
    ELSE SmallFactorsStrict(X, i + 1)

\* for( i = 0; small_prime[i] > 0; i++ ) { ... }, from the entry i (one-based)
RECURSIVE SmallFactorsFrom(_, _)
SmallFactorsFrom(X, i) ==
    IF small_prime[i] <= 0 THEN 0
    ELSE IF sgx_mpi_cmp_int(X, small_prime[i]) <= 0 THEN 1
    ELSE IF sgx_mpi_mod_int(0, X, small_prime[i]).ret # 0
    THEN sgx_mpi_mod_int(0, X, small_prime[i]).ret
    ELSE IF sgx_mpi_mod_int(0, X, small_prime[i]).r = 0
    THEN POLARSSL_ERR_MPI_NOT_ACCEPTABLE
    ELSE SmallFactorsFrom(X, i + 1)

\* 0: no small factor, 1: certain prime, NOT_ACCEPTABLE: certain non-prime
sgx_mpi_check_small_factors(X) ==
    IF X.p = <<>> THEN SIGSEGV
    ELSE IF X.p[1] % 2 = 0 THEN POLARSSL_ERR_MPI_NOT_ACCEPTABLE
    ELSE SmallFactorsFrom(X, 1)

MillerLocals ==
    {"miller_rabin.W", "miller_rabin.R", "miller_rabin.T", "miller_rabin.A",
     "miller_rabin.RR"}

\* HAC, table 4.4: the number of rounds for a candidate of i bits
MillerCount(i) ==
    IF i >= 1300 THEN 2
    ELSE IF i >= 850 THEN 3
    ELSE IF i >= 650 THEN 4
    ELSE IF i >= 350 THEN 8
    ELSE IF i >= 250 THEN 12
    ELSE IF i >= 150 THEN 18
    ELSE 27

\* if( cmp_mpi( &A, &W ) >= 0 ) { j = msb( &A ) - msb( &W ); shift_r( &A, j + 1 ); }
MillerBelow(r) ==
    IF r.ret # 0 THEN r
    ELSE IF sgx_mpi_cmp_mpi(r.h["miller_rabin.A"], r.h["miller_rabin.W"]) >= 0
    THEN sgx_mpi_shift_r(r.h, "miller_rabin.A",
                         sgx_mpi_msb(r.h["miller_rabin.A"])
                           - sgx_mpi_msb(r.h["miller_rabin.W"]) + 1)
    ELSE r

\* A.p[0] |= 3;
MillerBase(r) ==
    IF r.ret # 0 THEN r
    ELSE Ok(SetLimb(r.h, "miller_rabin.A", 0,
                    BitOr(Limb(r.h, "miller_rabin.A", 0), 3)))

\* the base of one round: fill_random( &A, X->n * ciL ), the shift, the low bits
MillerDraw(h, X, p_rng) ==
    MillerBase(MillerBelow(sgx_mpi_fill_random(h, "miller_rabin.A",
                                               Len(h[X].p) * ciL, p_rng)))

\* exp_mod( &A, &A, &R, X, &RR )
MillerPower(r, X) ==
    IF r.ret # 0 THEN r
    ELSE sgx_mpi_exp_mod(r.h, "miller_rabin.A", "miller_rabin.A", "miller_rabin.R",
                         X, "miller_rabin.RR")

\* the squaring loop from j on; the break on A = 1 ends it
RECURSIVE MillerSquares(_, _, _, _)
MillerSquared(r, X, j, s) ==
    IF r.ret # 0 \/ sgx_mpi_cmp_int(r.h["miller_rabin.A"], 1) = 0 THEN r
    ELSE MillerSquares(r, X, j + 1, s)

\* while( j < s && cmp_mpi( &A, &W ) != 0 ) { mul_mpi( &T, &A, &A ); mod_mpi( &A, &T, X ); ... }
MillerSquares(r, X, j, s) ==
    IF r.ret # 0 \/ j >= s
         \/ sgx_mpi_cmp_mpi(r.h["miller_rabin.A"], r.h["miller_rabin.W"]) = 0
    THEN r
    ELSE MillerSquared(
           Then(sgx_mpi_mul_mpi(r.h, "miller_rabin.T", "miller_rabin.A",
                                "miller_rabin.A"),
                LAMBDA h1: sgx_mpi_mod_mpi(h1, "miller_rabin.A", "miller_rabin.T", X)),
           X, j, s)

\* not prime if A != |X| - 1 or A == 1
MillerVerdict(r) ==
    IF r.ret # 0 THEN r
    ELSE IF sgx_mpi_cmp_mpi(r.h["miller_rabin.A"], r.h["miller_rabin.W"]) # 0
              \/ sgx_mpi_cmp_int(r.h["miller_rabin.A"], 1) = 0
    THEN Err(POLARSSL_ERR_MPI_NOT_ACCEPTABLE, r.h)
    ELSE r

\* after exp_mod: continue when A is |X| - 1 or 1, else square and decide
MillerWitness(r, X, s) ==
    IF r.ret # 0 THEN r
    ELSE IF sgx_mpi_cmp_mpi(r.h["miller_rabin.A"], r.h["miller_rabin.W"]) = 0
              \/ sgx_mpi_cmp_int(r.h["miller_rabin.A"], 1) = 0
    THEN r
    ELSE MillerVerdict(MillerSquares(r, X, 1, s))

\* one pass of for( i = 0; i < n; i++ ); NOT_ACCEPTABLE is the break
MillerRound(r, X, s, p_rng) ==
    IF r.ret # 0 THEN r
    ELSE MillerWitness(MillerPower(MillerDraw(r.h, X, p_rng), X), X, s)

\* the passes lo .. hi - 1
RECURSIVE MillerRounds(_, _, _, _, _, _)
MillerRounds(r, X, s, p_rng, lo, hi) ==
    IF r.ret # 0 \/ hi <= lo THEN r
    ELSE IF hi = lo + 1 THEN MillerRound(r, X, s, p_rng)
    ELSE MillerRounds(MillerRounds(r, X, s, p_rng, lo, (lo + hi) \div 2),
                      X, s, p_rng, (lo + hi) \div 2, hi)

\* W = |X| - 1; s = lsb( &W ); R = W >> s
MillerHead(h, X) ==
    Then(sgx_mpi_sub_int(h, "miller_rabin.W", X, 1), LAMBDA h1:
    Then(sgx_mpi_copy(h1, "miller_rabin.R", "miller_rabin.W"), LAMBDA h2:
         sgx_mpi_shift_r(h2, "miller_rabin.R", sgx_mpi_lsb(h1["miller_rabin.W"]))))

\* i = msb( X ); n = the number of rounds for i bits; then the rounds
MillerStart(r, X, p_rng) ==
    IF r.ret # 0 THEN r
    ELSE MillerRounds(r, X, sgx_mpi_lsb(r.h["miller_rabin.W"]), p_rng, 0,
                      MillerCount(sgx_mpi_msb(r.h[X])))

\* the statements of miller_rabin before its cleanup label
MillerMain(h, X, p_rng) == MillerStart(MillerHead(h, X), X, p_rng)

sgx_mpi_miller_rabin(h, X, p_rng) ==
    Release(MillerMain(h, X, p_rng), MillerLocals)

\* const mpi XX = { 1, X->n, X->p }: the object XX is on the stack of is_prime
\* and shares the limbs of X, which the callees only read
IsPrimeView(h, X) == [h EXCEPT !["is_prime.XX"] = [s |-> 1, p |-> h[X].p]]

\* the return of is_prime ends the lifetime of XX
IsPrimeReturn(r) == [ret |-> r.ret, h |-> [r.h EXCEPT !["is_prime.XX"] = InitMPI]]

sgx_mpi_is_prime(h, X, p_rng) ==
    IF sgx_mpi_cmp_int([s |-> 1, p |-> h[X].p], 0) = 0
         \/ sgx_mpi_cmp_int([s |-> 1, p |-> h[X].p], 1) = 0
    THEN Err(POLARSSL_ERR_MPI_NOT_ACCEPTABLE, h)
    ELSE IF sgx_mpi_cmp_int([s |-> 1, p |-> h[X].p], 2) = 0 THEN Ok(h)
    ELSE IF sgx_mpi_check_small_factors([s |-> 1, p |-> h[X].p]) = 1 THEN Ok(h)
    ELSE IF sgx_mpi_check_small_factors([s |-> 1, p |-> h[X].p]) # 0
    THEN Err(sgx_mpi_check_small_factors([s |-> 1, p |-> h[X].p]), h)
    ELSE IsPrimeReturn(sgx_mpi_miller_rabin(IsPrimeView(h, X), "is_prime.XX", p_rng))

(***************************************************************************)
(* Prime generation                                                        *)
(***************************************************************************)
\* k = msb( X ); if( k < nbits ) shift_l( X, nbits - k ); if( k > nbits ) shift_r( X, k - nbits );
GenPrimeSize(r, X, nbits) ==
    IF r.ret # 0 THEN r
    ELSE IF sgx_mpi_msb(r.h[X]) < nbits
    THEN sgx_mpi_shift_l(r.h, X, nbits - sgx_mpi_msb(r.h[X]))
    ELSE IF sgx_mpi_msb(r.h[X]) > nbits
    THEN sgx_mpi_shift_r(r.h, X, sgx_mpi_msb(r.h[X]) - nbits)
    ELSE r

\* X->p[0] |= 3;
GenPrimeOdd(r, X) ==
    IF r.ret # 0 THEN r ELSE Ok(SetLimb(r.h, X, 0, BitOr(Limb(r.h, X, 0), 3)))

\* the candidate: random chars, nbits bits, the two low bits set
GenPrimeCandidate(h, X, nbits, p_rng) ==
    GenPrimeOdd(
      GenPrimeSize(sgx_mpi_fill_random(h, X, BITS_TO_LIMBS(nbits) * ciL, p_rng),
                   X, nbits),
      X)

\* what a loop of gen_prime carries: the status, the memory, and whether the
\* loop has been left (by break or by goto cleanup)
Left(r) == [ret |-> r.ret, h |-> r.h, done |-> TRUE]
Goes(r) == [ret |-> r.ret, h |-> r.h, done |-> r.ret # 0]

\* body of while( ( ret = is_prime( X, p_rng ) ) != 0 ), after the call q
PlainStep(q, X) ==
    IF q.ret = 0 \/ q.ret # POLARSSL_ERR_MPI_NOT_ACCEPTABLE THEN Left(q)
    ELSE Goes(sgx_mpi_add_int(q.h, X, X, 2))

\* at most 2^k passes of that loop
RECURSIVE PlainPasses(_, _, _, _)
PlainPasses(r, X, p_rng, k) ==
    IF r.done THEN r
    ELSE IF k = 0 THEN PlainStep(sgx_mpi_is_prime(r.h, X, p_rng), X)
    ELSE PlainPasses(PlainPasses(r, X, p_rng, k - 1), X, p_rng, k - 1)

\* the loop, run as 1, 2, 4, ... passes until it is left
RECURSIVE PlainLoop(_, _, _, _)
PlainLoop(r, X, p_rng, k) ==
    IF r.done THEN r
    ELSE PlainLoop(PlainPasses(r, X, p_rng, k), X, p_rng, k + 1)

\* mod_int( &r, X, 3 ); if( r == 0 ) add_int( X, X, 8 ); else if( r == 1 ) add_int( X, X, 4 );
SafeResidue(r, X) ==
    IF r.ret # 0 THEN r
    ELSE IF sgx_mpi_mod_int(0, r.h[X], 3).ret # 0
    THEN Err(sgx_mpi_mod_int(0, r.h[X], 3).ret, r.h)
    ELSE IF sgx_mpi_mod_int(0, r.h[X], 3).r = 0 THEN sgx_mpi_add_int(r.h, X, X, 8)
    ELSE IF sgx_mpi_mod_int(0, r.h[X], 3).r = 1 THEN sgx_mpi_add_int(r.h, X, X, 4)
    ELSE r

\* copy( &Y, X ); shift_r( &Y, 1 );
SafeHalf(r, X) ==
    IF r.ret # 0 THEN r
    ELSE Then(sgx_mpi_copy(r.h, "gen_prime.Y", X),
              LAMBDA h1: sgx_mpi_shift_r(h1, "gen_prime.Y", 1))

\* the condition of the if in while( 1 ): the status it leaves in ret
SafeTest(h, X, p_rng) ==
    IF sgx_mpi_check_small_factors(h[X]) # 0
    THEN Err(sgx_mpi_check_small_factors(h[X]), h)
    ELSE IF sgx_mpi_check_small_factors(h["gen_prime.Y"]) # 0
    THEN Err(sgx_mpi_check_small_factors(h["gen_prime.Y"]), h)
    ELSE Then(sgx_mpi_miller_rabin(h, X, p_rng),
              LAMBDA h1: sgx_mpi_miller_rabin(h1, "gen_prime.Y", p_rng))

\* mutant of SafeStep: the next candidates are X + 12 and Y + 12
SafeStepSame(q, X) ==
    IF q.ret = 0 \/ q.ret # POLARSSL_ERR_MPI_NOT_ACCEPTABLE THEN Left(q)
    ELSE Goes(Then(sgx_mpi_add_int(q.h, X, X, 12),
                   LAMBDA h1: sgx_mpi_add_int(h1, "gen_prime.Y", "gen_prime.Y", 12)))

\* body of while( 1 ), after the test q: break, goto cleanup, or next candidates
SafeStep(q, X) ==
    IF q.ret = 0 \/ q.ret # POLARSSL_ERR_MPI_NOT_ACCEPTABLE THEN Left(q)
    ELSE Goes(Then(sgx_mpi_add_int(q.h, X, X, 12),
                   LAMBDA h1: sgx_mpi_add_int(h1, "gen_prime.Y", "gen_prime.Y", 6)))

\* at most 2^k passes of while( 1 )
RECURSIVE SafePasses(_, _, _, _)
SafePasses(r, X, p_rng, k) ==
    IF r.done THEN r
    ELSE IF k = 0 THEN SafeStep(SafeTest(r.h, X, p_rng), X)
    ELSE SafePasses(SafePasses(r, X, p_rng, k - 1), X, p_rng, k - 1)

\* the loop, run as 1, 2, 4, ... passes until it is left
RECURSIVE SafeLoop(_, _, _, _)
SafeLoop(r, X, p_rng, k) ==
    IF r.done THEN r
    ELSE SafeLoop(SafePasses(r, X, p_rng, k), X, p_rng, k + 1)

\* the statements of the safe-prime path before while( 1 )
SafeHead(h, X, nbits, p_rng) ==
    SafeHalf(SafeResidue(GenPrimeCandidate(h, X, nbits, p_rng), X), X)

\* the statements of gen_prime before its cleanup label
GenPrimeMain(h, X, nbits, dh_flag, p_rng) ==
    IF dh_flag = 0
    THEN PlainLoop(Goes(GenPrimeCandidate(h, X, nbits, p_rng)), X, p_rng, 0)
    ELSE SafeLoop(Goes(SafeHead(h, X, nbits, p_rng)), X, p_rng, 0)

sgx_mpi_gen_prime(h, X, nbits, dh_flag, p_rng) ==
    IF nbits < 3 \/ nbits > POLARSSL_MPI_MAX_BITS
    THEN Err(POLARSSL_ERR_MPI_BAD_INPUT_DATA, h)
    ELSE Release(GenPrimeMain(h, X, nbits, dh_flag, p_rng), {"gen_prime.Y"})

(***************************************************************************)
(* Ownership of the limb buffers: the struct of an mpi (s, n, p) and the   *)
(* allocator.  A memory m holds the structs (obj), every buffer ever       *)
(* handed out by address (heap), the addresses not yet released (live)     *)
(* and, in order, what each released buffer held when it was released      *)
(* (freed).  A struct without a buffer has p = NullAddr.                     *)
(***************************************************************************)
\* the address no buffer has
NullAddr == 0

InitStruct == [s |-> 1, n |-> 0, p |-> NullAddr]

\* polarssl_malloc( n * ciL ): a fresh buffer of unset limbs, or NullAddr
polarssl_malloc(m, n, ok) ==
    IF ok
    THEN [p |-> Len(m.heap) + 1,
          m |-> [m EXCEPT !.heap = Append(@, [i \in 1..n |-> LimbMod - 1]),
                          !.live = @ \cup {Len(m.heap) + 1}]]
    ELSE [p |-> NullAddr, m |-> m]

\* polarssl_free( p )
polarssl_free(m, a) ==
    [m EXCEPT !.freed = Append(@, [a |-> a, limbs |-> m.heap[a]]),
              !.live = @ \ {a}]

\* the mutant of sgx_polarssl_zeroize: the limbs are left as they are
ZeroizeNothing(m, a, n) == m

\* sgx_polarssl_zeroize( p, n * ciL )
sgx_polarssl_zeroize(m, a, n) ==
    [m EXCEPT !.heap[a] = [i \in 1..Len(@) |-> IF i <= n THEN 0 ELSE @[i]]]

\* memset( p, 0, n * ciL )
HeapMemset(m, a, n) ==
    [m EXCEPT !.heap[a] = [i \in 1..Len(@) |-> IF i <= n THEN 0 ELSE @[i]]]

\* memcpy( dst, src, n * ciL )
HeapMemcpy(m, dst, src, n) ==
    [m EXCEPT !.heap[dst] =
        [i \in 1..Len(@) |-> IF i <= n THEN m.heap[src][i] ELSE @[i]]]

sgx_mpi_init_ptr(m, X) == [m EXCEPT !.obj[X] = InitStruct]

sgx_mpi_free_ptr(m, X) ==
    IF m.obj[X].p # NullAddr
    THEN sgx_mpi_init_ptr(
             polarssl_free(sgx_polarssl_zeroize(m, m.obj[X].p, m.obj[X].n),
                           m.obj[X].p), X)
    ELSE sgx_mpi_init_ptr(m, X)

\* the mutant of GrowInto: the old limbs are not carried over
GrowDropping(m, X, nblimbs, r) ==
    IF m.obj[X].p # NullAddr
    THEN [polarssl_free(sgx_polarssl_zeroize(HeapMemset(r.m, r.p, nblimbs),
                                             m.obj[X].p, m.obj[X].n),
                        m.obj[X].p)
            EXCEPT !.obj[X].n = nblimbs, !.obj[X].p = r.p]
    ELSE [HeapMemset(r.m, r.p, nblimbs)
            EXCEPT !.obj[X].n = nblimbs, !.obj[X].p = r.p]

\* the tail of sgx_mpi_grow once malloc has delivered the buffer r.p
GrowInto(m, X, nblimbs, r) ==
    IF m.obj[X].p # NullAddr
    THEN [polarssl_free(
              sgx_polarssl_zeroize(
                  HeapMemcpy(HeapMemset(r.m, r.p, nblimbs),
                             r.p, m.obj[X].p, m.obj[X].n),
                  m.obj[X].p, m.obj[X].n),
              m.obj[X].p)
            EXCEPT !.obj[X].n = nblimbs, !.obj[X].p = r.p]
    ELSE [HeapMemset(r.m, r.p, nblimbs)
            EXCEPT !.obj[X].n = nblimbs, !.obj[X].p = r.p]

sgx_mpi_grow_ptr(m, X, nblimbs, ok) ==
    IF nblimbs > POLARSSL_MPI_MAX_LIMBS
    THEN [ret |-> POLARSSL_ERR_MPI_MALLOC_FAILED, m |-> m]
    ELSE IF m.obj[X].n >= nblimbs
    THEN [ret |-> 0, m |-> m]
    ELSE IF polarssl_malloc(m, nblimbs, ok).p = NullAddr
    THEN [ret |-> POLARSSL_ERR_MPI_MALLOC_FAILED, m |-> m]
    ELSE [ret |-> 0, m |-> GrowInto(m, X, nblimbs, polarssl_malloc(m, nblimbs, ok))]

\* the mutant of CopyLimbs: X takes the buffer of Y itself
CopyPointer(m, X, Y, i) == [m EXCEPT !.obj[X].p = m.obj[Y].p, !.obj[X].n = m.obj[Y].n]

\* memset( X->p, 0, X->n * ciL ); memcpy( X->p, Y->p, i * ciL )
CopyLimbs(m, X, Y, i) ==
    HeapMemcpy(HeapMemset(m, m.obj[X].p, m.obj[X].n),
               m.obj[X].p, m.obj[Y].p, i)

\* the limbs of Y in use: for( i = Y->n - 1; i > 0; i-- ) if( Y->p[i] != 0 ) break; i++
RECURSIVE UsedLimbs(_, _)
UsedLimbs(p, n) ==
    IF n <= 1 THEN 1
    ELSE IF p[n] # 0 THEN n
    ELSE UsedLimbs(p, n - 1)

CopyGrown(r, X, Y, i) ==
    IF r.ret # 0 THEN r ELSE [ret |-> 0, m |-> CopyLimbs(r.m, X, Y, i)]

sgx_mpi_copy_ptr(m, X, Y, ok) ==
    IF X = Y THEN [ret |-> 0, m |-> m]
    ELSE IF m.obj[Y].p = NullAddr THEN [ret |-> 0, m |-> sgx_mpi_free_ptr(m, X)]
    ELSE CopyGrown(
             sgx_mpi_grow_ptr([m EXCEPT !.obj[X].s = m.obj[Y].s], X,
                              UsedLimbs(m.heap[m.obj[Y].p], m.obj[Y].n), ok),
             X, Y, UsedLimbs(m.heap[m.obj[Y].p], m.obj[Y].n))

sgx_mpi_swap_ptr(m, X, Y) ==
    [m EXCEPT !.obj[X] = m.obj[Y], !.obj[Y] = m.obj[X]]

LsetGrown(r, X, z) ==
    IF r.ret # 0 THEN r
    ELSE [ret |-> 0,
          m |-> [HeapMemset(r.m, r.m.obj[X].p, r.m.obj[X].n)
                   EXCEPT !.heap[r.m.obj[X].p][1] = IF z < 0 THEN 0 - z ELSE z,
                          !.obj[X].s = IF z < 0 THEN 0 - 1 ELSE 1]]

sgx_mpi_lset_ptr(m, X, z, ok) == LsetGrown(sgx_mpi_grow_ptr(m, X, 1, ok), X, z)

\* the stores of a function into the limbs of X: the buffer of X holds p
HeapStore(m, X, p) == [m EXCEPT !.heap[m.obj[X].p] = p]

HeapStored(r, X, p) ==
    IF r.ret # 0 THEN r ELSE [ret |-> 0, m |-> HeapStore(r.m, X, p)]

\* exp_mod seen from its local RR and the slot _RR of the caller.  rr is the
\* limbs mod_mpi leaves in RR; fail names the statement whose allocation
\* fails: a grow before RR is computed ("early"), the lset, the shift_l or
\* the mod_mpi that compute it, a statement after it ("late"), or none.
RECURSIVE ExpRRPtr(_, _, _, _, _, _)
ExpRRPtr(pc, r, _RR, n, rr, fail) ==
    IF r.ret # 0 THEN r
    ELSE CASE pc = 1 ->
                ExpRRPtr(2, sgx_mpi_lset_ptr(r.m, "exp_mod.RR", 1, fail # "lset"),
                         _RR, n, rr, fail)
           [] pc = 2 ->
                ExpRRPtr(3, HeapStored(sgx_mpi_grow_ptr(r.m, "exp_mod.RR",
                                           BITS_TO_LIMBS(1 + n * 2 * biL),
                                           fail # "shift_l"),
                                       "exp_mod.RR", Zeros(n * 2) \o <<1>>),
                         _RR, n, rr, fail)
           [] pc = 3 ->
                ExpRRPtr(4, IF fail = "mod_mpi"
                            THEN [ret |-> POLARSSL_ERR_MPI_MALLOC_FAILED, m |-> r.m]
                            ELSE HeapStored(r, "exp_mod.RR", rr),
                         _RR, n, rr, fail)
           [] pc = 4 ->
                IF _RR # NULL
                THEN [ret |-> 0, m |-> [r.m EXCEPT !.obj[_RR] = r.m.obj["exp_mod.RR"]]]
                ELSE r

\* the mutant of ExpCleanupRR: RR is freed whatever the slot holds
ExpCleanupAlways(m, _RR) == sgx_mpi_free_ptr(m, "exp_mod.RR")

\* cleanup: if( _RR == NULL || _RR->p == NULL ) sgx_mpi_free( &RR )
ExpCleanupRR(m, _RR) ==
    IF _RR = NULL THEN sgx_mpi_free_ptr(m, "exp_mod.RR")
    ELSE IF m.obj[_RR].p = NullAddr THEN sgx_mpi_free_ptr(m, "exp_mod.RR")
    ELSE m

\* the statements after RR is there
ExpAfterRR(r, fail) ==
    IF r.ret # 0 THEN r
    ELSE IF fail = "late" THEN [ret |-> POLARSSL_ERR_MPI_MALLOC_FAILED, m |-> r.m]
    ELSE r

\* the return: the frame of the call, the struct RR in it, is gone
ExpReturn(r, _RR) ==
    [ret |-> r.ret,
     m |-> [ExpCleanupRR(r.m, _RR) EXCEPT !.obj["exp_mod.RR"] = InitStruct]]

ExpEnter(m, _RR, n, rr, fail) ==
    IF fail = "early" THEN [ret |-> POLARSSL_ERR_MPI_MALLOC_FAILED, m |-> m]
    ELSE IF _RR = NULL THEN ExpRRPtr(1, [ret |-> 0, m |-> m], _RR, n, rr, fail)
    ELSE IF m.obj[_RR].p = NullAddr
    THEN ExpRRPtr(1, [ret |-> 0, m |-> m], _RR, n, rr, fail)
    ELSE [ret |-> 0, m |-> [m EXCEPT !.obj["exp_mod.RR"] = m.obj[_RR]]]

sgx_mpi_exp_mod_ptr(m, _RR, n, rr, fail) ==
    ExpReturn(ExpAfterRR(ExpEnter(sgx_mpi_init_ptr(m, "exp_mod.RR"),
                                  _RR, n, rr, fail), fail), _RR)

\* the mpi a struct stands for: its sign and the limbs of its buffer
StructView(m, X) ==
    [s |-> m.obj[X].s,
     p |-> IF m.obj[X].p = NullAddr THEN <<>>
           ELSE [i \in 1..m.obj[X].n |-> m.heap[m.obj[X].p][i]]]

(***************************************************************************)
(* State: the memory, and a record of the last call                        *)
(***************************************************************************)
VARIABLES mem, pre, op, args, ret, steps

vars == <<mem, pre, op, args, ret, steps>>

Regs == {"A", "B", "Q", "R", "X", "E", "N", "RR"}

Locals ==
    DivLocals \cup ExpLocals \cup GcdLocals \cup InvLocals
        \cup {"sub_abs.TB", "mul_mpi.TA", "mul_mpi.TB", "read_string.T",
              "add_int._B", "sub_int._B", "mul_int._B"}
        \cup MillerLocals \cup {"is_prime.XX", "gen_prime.Y"}

Names == Regs \cup Locals

\* a memory whose registers hold the given MPIs, every other object in init state
Memory(f) == f @@ [x \in Names |-> InitMPI]

Signs == {1, 0 - 1}

\* all limb buffers of length 1 .. len over the limb values vals
Buffers(vals, len) == UNION {[1..k -> vals] : k \in 1..len}

\* the signed values over those buffers; a zero magnitude carries sign +1
MPIs(vals, len) ==
    {[s |-> sg, p |-> b] : sg \in Signs, b \in Buffers(vals, len)}
        \ {[s |-> 0 - 1, p |-> Zeros(k)] : k \in 1..len}

\* a call: the memory before and after, the operation, its arguments, its status
Call(name, a, r) ==
    /\ pre' = mem
    /\ mem' = r.h
    /\ op' = name
    /\ args' = a
    /\ ret' = r.ret
    /\ steps' = steps + 1

(***************************************************************************)
(* Division and modulo with destinations distinct from the operands        *)
(***************************************************************************)
MaxLimbsA == 2
MaxLimbsB == 1
DivLimbs == {0, 1, LimbMod \div 2 - 2, LimbMod \div 2 - 1, LimbMod - 1}

InitDiv ==
    /\ \E a \in MPIs(DivLimbs, MaxLimbsA), b \in MPIs(DivLimbs, MaxLimbsB) :
          mem = Memory([A |-> a, B |-> b])
    /\ pre = mem
    /\ op = "none"
    /\ args = <<>>
    /\ ret = 0
    /\ steps = 0

DivMpi ==
    /\ steps = 0
    /\ Call("div_mpi", <<"Q", "R", "A", "B">>,
            sgx_mpi_div_mpi(mem, "Q", "R", "A", "B"))

ModMpi ==
    /\ steps = 0
    /\ Call("mod_mpi", <<"R", "A", "B">>, sgx_mpi_mod_mpi(mem, "R", "A", "B"))

\* mpi_div_mpi( NULL, NULL, &A, &B ) on its main path, stopped at the cleanup
\* label: the locals are alive, Y is the normalized divisor, and X, which is
\* shifted back only for an R, the remainder times 2^k
DivMainPath ==
    /\ steps = 0
    /\ sgx_mpi_cmp_int(mem["B"], 0) # 0
    /\ sgx_mpi_cmp_abs(mem["A"], mem["B"]) >= 0
    /\ Call("div_mpi.cleanup", <<NULL, NULL, "A", "B">>,
            DivMain(mem, NULL, NULL, "A", "B"))

NextDiv == DivMpi \/ ModMpi \/ DivMainPath

SpecDiv == InitDiv /\ [][NextDiv]_vars

\* C1: division identity A = Q*B + R with |R| < |B| for B # 0
DivIdentity ==
    (op = "div_mpi" /\ Val(pre["B"]) # 0) =>
        /\ ret = 0
        /\ Val(pre["A"]) = Val(mem["Q"]) * Val(pre["B"]) + Val(mem["R"])
        /\ Mag(mem["R"].p) < Mag(pre["B"].p)


\* C2: a successful division leaves 0 <= R < |B|, sign(Q) = sign(A)*sign(B), and
\* a zero remainder with sign +1
DivRemainderRange ==
    (op = "div_mpi" /\ ret = 0) =>
        /\ 0 <= Val(mem["R"])
        /\ Val(mem["R"]) < Mag(pre["B"].p)
        /\ (Mag(mem["Q"].p) # 0 => mem["Q"].s = pre["A"].s * pre["B"].s)
        /\ (Mag(mem["R"].p) = 0 => mem["R"].s = 1)

\* C3: mod_mpi returns the unique R in [0, B) congruent to A for B > 0, fails with
\* NegativeValue for B < 0 and with DivisionByZero for B = 0
ModIdentity ==
    op = "mod_mpi" =>
        /\ Val(pre["B"]) > 0 =>
              /\ ret = 0
              /\ 0 <= Val(mem["R"])
              /\ Val(mem["R"]) < Val(pre["B"])
              /\ (Val(pre["A"]) - Val(mem["R"])) % Val(pre["B"]) = 0
        /\ Val(pre["B"]) < 0 => ret = POLARSSL_ERR_MPI_NEGATIVE_VALUE
        /\ Val(pre["B"]) = 0 => ret = POLARSSL_ERR_MPI_DIVISION_BY_ZERO


\* mod_mpi has reduced a negative A of two limbs by a positive B
ModWitness ==
    /\ op = "mod_mpi"
    /\ ret = 0
    /\ Val(pre["A"]) < 0 - LimbMod
    /\ Val(pre["B"]) > 1
    /\ Val(mem["R"]) > 0

\* C23: after the normalization of div_mpi the top bit of the top limb of Y
\* is set, Y[t] >= 2^(biL - 1), for every B # 0, and the remainder is X
\* shifted right by the k of the normalization.
DivNormalized ==
    (op = "div_mpi.cleanup" /\ ret = 0) =>
        /\ mem["div.Y"].p[Len(mem["div.Y"].p)] >= LimbMod \div 2
        /\ Mag(sgx_mpi_div_mpi(pre, "Q", "R", "A", "B").h["R"].p)
             = Mag(mem["div.X"].p) \div (2 ^ NormShift(pre["B"]))

(***************************************************************************)
(* Modular exponentiation: exp_mod( X, A, E, N, _RR ) with and without the *)
(* cache of R^2 mod N, on assigned operands                                *)
(***************************************************************************)
MaxExpCalls == 2

\* odd moduli, one with a leading zero limb
ExpModuli ==
    {<<1>>, <<3>>, <<7>>, <<13>>, <<9, 0>>, <<5, 1>>, <<11, 6>>,
     <<LimbMod - 1, LimbMod \div 2 - 1>>}

ExpBases ==
    {<<0>>, <<1>>, <<2>>, <<7>>, <<10>>, <<0, 1>>, <<6, 9>>,
     <<LimbMod - 1, LimbMod - 1>>}

ShortExponents ==
    {<<0>>, <<1>>, <<2>>, <<3>>, <<6>>, <<11>>, <<0, 1>>, <<13, 2>>, <<5, 0>>,
     <<0, 0, LimbMod \div 4>>}

\* an exponent of len limbs whose top limb has its top bit set
\* its limbs i .. j
RECURSIVE LongExponentFrom(_, _, _, _, _)
LongExponentFrom(i, j, len, a, b) ==
    IF i = j
    THEN << IF i = len THEN LimbMod \div 2 + a ELSE (a * i + b) % LimbMod >>
    ELSE LongExponentFrom(i, (i + j) \div 2, len, a, b)
           \o LongExponentFrom((i + j) \div 2 + 1, j, len, a, b)

LongExponent(len, a, b) == LongExponentFrom(1, len, len, a, b)

\* exponents of 24, 80, 240 and 672 bits: window sizes 3, 4, 5 and 6
LongExponents ==
    {LongExponent(3, 3, 1), LongExponent(3, 0, 0), LongExponent(4, 7, 15),
     LongExponent(10, 5, 9), LongExponent(11, 1, 0),
     LongExponent(30, 11, 6), LongExponent(84, 13, 3)}

Signed(bufs) ==
    {[s |-> sg, p |-> b] : sg \in Signs, b \in bufs}
        \ {[s |-> 0 - 1, p |-> b] : b \in {c \in bufs : Mag(c) = 0}}

InitExp ==
    /\ \E a \in Signed(ExpBases), n \in ExpModuli :
          \/ \E e \in ShortExponents :
                mem = Memory([A |-> a, E |-> [s |-> 1, p |-> e],
                              N |-> [s |-> 1, p |-> n]])
          \/ \E e \in LongExponents :
                /\ a.p \in {<<7>>, <<6, 9>>}
                /\ n \in {<<13>>, <<11, 6>>}
                /\ mem = Memory([A |-> a, E |-> [s |-> 1, p |-> e],
                                 N |-> [s |-> 1, p |-> n]])
    /\ pre = mem
    /\ op = "none"
    /\ args = <<>>
    /\ ret = 0
    /\ steps = 0

\* exp_mod( &X, &A, &E, &N, NULL )
ExpMod ==
    /\ steps = 0
    /\ Call("exp_mod", <<"X", "A", "E", "N", NULL>>,
            sgx_mpi_exp_mod(mem, "X", "A", "E", "N", NULL))

\* exp_mod( &X, &A, &E, &N, &RR ) and exp_mod( &X, &X, &E, &N, &RR ): the first
\* call fills the cache RR and the later ones read it
ExpModCache ==
    /\ steps < MaxExpCalls
    /\ \E a \in {"A", "X"} :
          /\ mem[a].p # <<>>
          /\ Call("exp_mod", <<"X", a, "E", "N", "RR">>,
                  sgx_mpi_exp_mod(mem, "X", a, "E", "N", "RR"))

NextExp == ExpMod \/ ExpModCache

SpecExp == InitExp /\ [][NextExp]_vars

\* the bit i (from 0) of the limb buffer ep
ExpBit(ep, i) == (ep[(i \div biL) + 1] \div 2^(i % biL)) % 2

\* acc^(2^(hi - lo)) * b^(bits hi - 1 .. lo of e) mod n, by square and multiply
\* from bit hi - 1 down to bit lo
RECURSIVE PowRange(_, _, _, _, _, _)
PowRange(acc, b, ep, lo, hi, n) ==
    IF hi <= lo THEN acc
    ELSE IF hi = lo + 1
    THEN (((acc * acc) % n) * (IF ExpBit(ep, lo) = 1 THEN b ELSE 1)) % n
    ELSE LET mid == (lo + hi) \div 2
             a1 == PowRange(acc, b, ep, mid, hi, n)
         IN  IF a1 >= 0 THEN PowRange(a1, b, ep, lo, mid, n) ELSE a1

\* b^e mod n for the exponent held in the limb buffer ep
PowMod(b, ep, n) == PowRange(1 % n, b, ep, 0, Len(ep) * biL, n)

\* the residue in [0, n) of the signed value of A
Residue(A, n) == (n + A.s * (Mag(A.p) % n)) % n

\* C4: for A >= 0, E >= 0 and odd N > 0, exp_mod succeeds with X = A^E mod N in
\* [0, N), for every window size and every position of the bits of E
ExpModCorrect ==
    (op = "exp_mod" /\ pre[args[2]].s = 1) =>
        /\ ret = 0
        /\ mem["X"].s = 1
        /\ Mag(mem["X"].p) < Mag(pre["N"].p)
        /\ Mag(mem["X"].p) = PowMod(Residue(pre[args[2]], Mag(pre["N"].p)),
                                    pre["E"].p, Mag(pre["N"].p))

\* exp_mod has run a window of size 6 and has flushed pending bits
ExpModWitness ==
    /\ op = "exp_mod"
    /\ ret = 0
    /\ pre[args[2]].s = 1
    /\ WindowSize(sgx_mpi_msb(pre["E"])) = 6
    /\ Mag(mem["X"].p) > 1

\* C5: for A < 0 the result is A^E mod N in [0, N): N - X for odd E, |A|^E mod N
\* for even E, never N itself
ExpModNegative ==
    (op = "exp_mod" /\ pre[args[2]].s = 0 - 1) =>
        /\ ret = 0
        /\ 0 <= Val(mem["X"])
        /\ Val(mem["X"]) < Mag(pre["N"].p)
        /\ Val(mem["X"]) = PowMod(Residue(pre[args[2]], Mag(pre["N"].p)),
                                  pre["E"].p, Mag(pre["N"].p))

(***************************************************************************)
(* Callers of gcd and inv_mod                                              *)
(***************************************************************************)
\* the operands are the integers whose magnitude is within MaxGcdValue of zero
\* or of 2^biL: values of one limb and of two
MaxGcdValue == 15

Abs(z) == IF z < 0 THEN 0 - z ELSE z

\* the least number of limbs that hold the magnitude v (one limb for 0)
RECURSIVE LimbsNeeded(_)
LimbsNeeded(v) == IF v < LimbMod THEN 1 ELSE 1 + LimbsNeeded(v \div LimbMod)

\* the MPI of value z in a buffer of n limbs, as lset and read_string leave it
RECURSIVE LimbsOf(_, _)
LimbsOf(v, n) ==
    IF n = 0 THEN <<>> ELSE << v % LimbMod >> \o LimbsOf(v \div LimbMod, n - 1)

MpiOf(z, n) == [s |-> IF z < 0 THEN 0 - 1 ELSE 1, p |-> LimbsOf(Abs(z), n)]

\* the MPIs of the values in zs, in buffers of the least length up to len limbs
MpisOf(zs, len) ==
    UNION {{MpiOf(z, n) : n \in LimbsNeeded(Abs(z))..len} : z \in zs}

\* the integers of either sign whose magnitude is in 0 .. k or within k of 2^biL
NearLimb(k) ==
    LET mags == (0..k) \cup ((LimbMod - k)..(LimbMod + k))
    IN  mags \cup {0 - m : m \in mags}

InitGcd ==
    /\ \E a \in MpisOf(NearLimb(MaxGcdValue), 2),
          b \in MpisOf(NearLimb(MaxGcdValue), 2) :
          mem = Memory([A |-> a, N |-> b])
    /\ pre = mem
    /\ op = "none"
    /\ args = <<>>
    /\ ret = 0
    /\ steps = 0

\* mpi_gcd( &X, &A, &N ), also with the destination one of the operands
Gcd ==
    /\ steps = 0
    /\ \E g \in {"X", "A"} :
          Call("gcd", <<g, "A", "N">>, sgx_mpi_gcd(mem, g, "A", "N"))

\* mpi_inv_mod( &X, &A, &N ), also with the destination A
InvMod ==
    /\ steps = 0
    /\ \E x \in {"X", "A"} :
          Call("inv_mod", <<x, "A", "N">>, sgx_mpi_inv_mod(mem, x, "A", "N"))

NextGcd == Gcd \/ InvMod

SpecGcd == InitGcd /\ [][NextGcd]_vars

\* the greatest common divisor of two naturals, by Euclid's algorithm
RECURSIVE MathGcd(_, _)
MathGcd(a, b) == IF b = 0 THEN a ELSE MathGcd(b, a % b)

\* C6: gcd( G, A, B ) returns 0 with G = gcd( |A|, |B| ) for all signed A and
\* B, zero included (gcd( A, 0 ) = |A|, gcd( 0, B ) = |B|), and it leaves the
\* same G when A and B are exchanged.
GcdCorrect ==
    op = "gcd" =>
        /\ ret = 0
        /\ Val(mem[args[1]]) = MathGcd(Abs(Val(pre["A"])), Abs(Val(pre["N"])))
        /\ Val(mem[args[1]]) =
             Val(sgx_mpi_gcd(pre, args[1], "N", "A").h[args[1]])

\* C7: a successful inv_mod( X, A, N ) leaves 0 <= X < N with A * X = 1 mod N;
\* the status is BAD_INPUT_DATA exactly for N <= 0 and, for N > 0, it is
\* NOT_ACCEPTABLE exactly when gcd( A, N ) is not 1.
InvModContract ==
    op = "inv_mod" =>
        /\ ret = 0 =>
             /\ 0 <= Val(mem[args[1]])
             /\ Val(mem[args[1]]) < Val(pre["N"])
             /\ (Val(pre["A"]) * Val(mem[args[1]]) - 1) % Val(pre["N"]) = 0
        /\ ret = POLARSSL_ERR_MPI_BAD_INPUT_DATA <=> Val(pre["N"]) <= 0
        /\ Val(pre["N"]) > 0 =>
             (ret = POLARSSL_ERR_MPI_NOT_ACCEPTABLE
                <=> MathGcd(Abs(Val(pre["A"])), Val(pre["N"])) # 1)

InvModWitness ==
    /\ op = "inv_mod"
    /\ ret = 0
    /\ Val(pre["A"]) < 0 - LimbMod
    /\ Val(pre["N"]) > LimbMod
    /\ Val(pre["N"]) % 2 = 0
    /\ Val(mem[args[1]]) > LimbMod

\* C21: for every A and every N > 0, inv_mod( X, A, N ) comes back, with 0 or
\* NOT_ACCEPTABLE: neither halving loop nor the do-while loop runs forever.
InvModReturns ==
    (op = "inv_mod" /\ Val(pre["N"]) > 0) =>
        ret \in {0, POLARSSL_ERR_MPI_NOT_ACCEPTABLE}

(***************************************************************************)
(* A caller that makes a sequence of calls on two objects                  *)
(***************************************************************************)
MaxSeqCalls == 2

SeqRegs == {"A", "B"}

\* the objects at the start: just initialised, or holding a value
SeqValues == {InitMPI, MpiOf(0 - 5, 1), MpiOf(LimbMod + 3, 2)}

SeqInts == {0, 3}

SeqCounts == {1, biL, biL + 1}

\* the strings "", "-", "0", "-0", "-25" and "1f"
SeqStrings == {<<>>, <<45>>, <<48>>, <<45, 48>>, <<45, 50, 53>>, <<49, 102>>}

InitSeq ==
    /\ \E a \in SeqValues, b \in SeqValues : mem = Memory([A |-> a, B |-> b])
    /\ pre = mem
    /\ op = "none"
    /\ args = <<>>
    /\ ret = 0
    /\ steps = 0

\* the caller goes on while every call succeeded
SeqGoesOn == steps < MaxSeqCalls /\ ret = 0

SeqLset ==
    /\ SeqGoesOn
    /\ \E x \in SeqRegs, z \in {0, 0 - 5} :
          Call("lset", <<x, z>>, sgx_mpi_lset(mem, x, z))

SeqReadString ==
    /\ SeqGoesOn
    /\ \E radix \in {10, 16}, s \in SeqStrings :
          Call("read_string", <<"A", radix, s>>, sgx_mpi_read_string(mem, "A", radix, s))

SeqCopy ==
    /\ SeqGoesOn
    /\ \E x \in SeqRegs, y \in SeqRegs :
          Call("copy", <<x, y>>, sgx_mpi_copy(mem, x, y))

SeqAddMpi ==
    /\ SeqGoesOn
    /\ \E x \in SeqRegs, a \in SeqRegs, b \in SeqRegs :
          Call("add_mpi", <<x, a, b>>, sgx_mpi_add_mpi(mem, x, a, b))

SeqSubMpi ==
    /\ SeqGoesOn
    /\ \E x \in SeqRegs, a \in SeqRegs, b \in SeqRegs :
          Call("sub_mpi", <<x, a, b>>, sgx_mpi_sub_mpi(mem, x, a, b))

SeqMulMpi ==
    /\ SeqGoesOn
    /\ \E x \in SeqRegs, a \in SeqRegs, b \in SeqRegs :
          Call("mul_mpi", <<x, a, b>>, sgx_mpi_mul_mpi(mem, x, a, b))

SeqAddInt ==
    /\ SeqGoesOn
    /\ \E x \in SeqRegs, a \in SeqRegs, b \in SeqInts :
          Call("add_int", <<x, a, b>>, sgx_mpi_add_int(mem, x, a, b))

SeqSubInt ==
    /\ SeqGoesOn
    /\ \E x \in SeqRegs, a \in SeqRegs, b \in SeqInts :
          Call("sub_int", <<x, a, b>>, sgx_mpi_sub_int(mem, x, a, b))

SeqMulInt ==
    /\ SeqGoesOn
    /\ \E x \in SeqRegs, a \in SeqRegs, b \in SeqInts :
          Call("mul_int", <<x, a, b>>, sgx_mpi_mul_int(mem, x, a, b))

SeqShiftR ==
    /\ SeqGoesOn
    /\ \E x \in SeqRegs, count \in SeqCounts :
          Call("shift_r", <<x, count>>, sgx_mpi_shift_r(mem, x, count))

SeqDivMpi ==
    /\ SeqGoesOn
    /\ \E qr \in {<<"A", NULL>>, <<NULL, "B">>, <<"A", "B">>},
          a \in SeqRegs, b \in SeqRegs :
          Call("div_mpi", <<qr[1], qr[2], a, b>>,
               sgx_mpi_div_mpi(mem, qr[1], qr[2], a, b))

\* R is not the object of B: mod_mpi( &B, &A, &B ) does not return, its
\* loop while( cmp_mpi( R, B ) >= 0 ) compares the object with itself
SeqModMpi ==
    /\ SeqGoesOn
    /\ \E r \in SeqRegs, a \in SeqRegs : \E b \in SeqRegs \ {r} :
          Call("mod_mpi", <<r, a, b>>, sgx_mpi_mod_mpi(mem, r, a, b))

NextSeq ==
    \/ SeqLset \/ SeqReadString \/ SeqCopy
    \/ SeqAddMpi \/ SeqSubMpi \/ SeqMulMpi
    \/ SeqAddInt \/ SeqSubInt \/ SeqMulInt
    \/ SeqShiftR \/ SeqDivMpi \/ SeqModMpi

SpecSeq == InitSeq /\ [][NextSeq]_vars

\* C8: after a sequence of successful calls of lset, read_string, add_mpi,
\* sub_mpi, add_int, sub_int, mul_mpi, mul_int, shift_r, div_mpi, mod_mpi and
\* copy, every object whose magnitude is zero has the sign +1.
ZeroIsPositive ==
    ret = 0 => \A x \in SeqRegs : Mag(mem[x].p) = 0 => mem[x].s = 1

(***************************************************************************)
(* Calls whose destination is one of the operands                          *)
(***************************************************************************)
MaxAliasLimbs == 2

AliasLimbs == {0, LimbMod \div 2, LimbMod - 1}

\* ( X, A, B ) with X the object of A, of B, and of both
AliasArgs == {<<"A", "A", "B">>, <<"A", "B", "A">>, <<"A", "A", "A">>}

InitAlias ==
    /\ \E a \in MPIs(AliasLimbs, MaxAliasLimbs), b \in MPIs(AliasLimbs, MaxAliasLimbs) :
          mem = Memory([A |-> a, B |-> b])
    /\ pre = mem
    /\ op = "none"
    /\ args = <<>>
    /\ ret = 0
    /\ steps = 0

AliasAddAbs ==
    /\ steps = 0
    /\ \E t \in AliasArgs :
          Call("add_abs", t, sgx_mpi_add_abs(mem, t[1], t[2], t[3]))

AliasSubAbs ==
    /\ steps = 0
    /\ \E t \in AliasArgs :
          Call("sub_abs", t, sgx_mpi_sub_abs(mem, t[1], t[2], t[3]))

AliasAddMpi ==
    /\ steps = 0
    /\ \E t \in AliasArgs :
          Call("add_mpi", t, sgx_mpi_add_mpi(mem, t[1], t[2], t[3]))

AliasSubMpi ==
    /\ steps = 0
    /\ \E t \in AliasArgs :
          Call("sub_mpi", t, sgx_mpi_sub_mpi(mem, t[1], t[2], t[3]))

AliasMulMpi ==
    /\ steps = 0
    /\ \E t \in AliasArgs :
          Call("mul_mpi", t, sgx_mpi_mul_mpi(mem, t[1], t[2], t[3]))

\* ( Q, R ) with one output the object of A or of B
DivAliasArgs == {<<"A", "R">>, <<"Q", "A">>, <<"B", "R">>, <<"Q", "B">>}

\* mpi_div_mpi( Q, R, &A, &B ) with an output that is an input
AliasDivMpi ==
    /\ steps = 0
    /\ \E t \in DivAliasArgs :
          Call("div_mpi", <<t[1], t[2], "A", "B">>,
               sgx_mpi_div_mpi(mem, t[1], t[2], "A", "B"))

NextAlias ==
    \/ AliasAddAbs \/ AliasSubAbs \/ AliasAddMpi \/ AliasSubMpi \/ AliasMulMpi
    \/ AliasDivMpi

SpecAlias == InitAlias /\ [][NextAlias]_vars

\* the same call with the destination X, an object that is no operand
Unaliased(name, h, a, b) ==
    CASE name = "add_abs" -> sgx_mpi_add_abs(h, "X", a, b)
      [] name = "sub_abs" -> sgx_mpi_sub_abs(h, "X", a, b)
      [] name = "add_mpi" -> sgx_mpi_add_mpi(h, "X", a, b)
      [] name = "sub_mpi" -> sgx_mpi_sub_mpi(h, "X", a, b)
      [] name = "mul_mpi" -> sgx_mpi_mul_mpi(h, "X", a, b)

\* C9: a call of add_abs, sub_abs, add_mpi, sub_mpi or mul_mpi whose
\* destination is A, B or both returns the status, and leaves in the
\* destination the sign and the magnitude, of the same call with a destination
\* that is no operand.
AliasEquivalent ==
    op \in {"add_abs", "sub_abs", "add_mpi", "sub_mpi", "mul_mpi"} =>
        /\ ret = Unaliased(op, pre, args[2], args[3]).ret
        /\ ret = 0 =>
             /\ mem[args[1]].s = Unaliased(op, pre, args[2], args[3]).h["X"].s
             /\ Mag(mem[args[1]].p)
                  = Mag(Unaliased(op, pre, args[2], args[3]).h["X"].p)

\* C24: div_mpi with an output that is the object of A or of B returns the
\* status, the quotient and the remainder (as signed values) of the call whose
\* outputs Q and R are objects of their own, on the early-return path and on
\* the main path.
DivAliasEquivalent ==
    op = "div_mpi" =>
        /\ ret = sgx_mpi_div_mpi(pre, "Q", "R", "A", "B").ret
        /\ ret = 0 =>
             /\ Val(mem[args[1]])
                  = Val(sgx_mpi_div_mpi(pre, "Q", "R", "A", "B").h["Q"])
             /\ Val(mem[args[2]])
                  = Val(sgx_mpi_div_mpi(pre, "Q", "R", "A", "B").h["R"])

(***************************************************************************)
(* Signed addition and subtraction                                         *)
(***************************************************************************)
\* the operands are the integers whose magnitude is within MaxAddValue of zero
\* or of 2^biL, so that sums carry into a second limb and differences borrow
MaxAddValue == 6

InitAdd ==
    /\ \E a \in MpisOf(NearLimb(MaxAddValue), 2),
          b \in MpisOf(NearLimb(MaxAddValue), 2) :
          mem = Memory([A |-> a, B |-> b])
    /\ pre = mem
    /\ op = "none"
    /\ args = <<>>
    /\ ret = 0
    /\ steps = 0

\* ( X, A, B ) with X no operand, X the object of A or of B, and A twice
AddArgs == {<<"X", "A", "B">>, <<"A", "A", "B">>, <<"B", "A", "B">>, <<"X", "A", "A">>}

AddMpi ==
    /\ steps = 0
    /\ \E t \in AddArgs :
          Call("add_mpi", t, sgx_mpi_add_mpi(mem, t[1], t[2], t[3]))

SubMpi ==
    /\ steps = 0
    /\ \E t \in AddArgs :
          Call("sub_mpi", t, sgx_mpi_sub_mpi(mem, t[1], t[2], t[3]))

\* sub_mpi( &R, &X, &B ) after add_mpi( &X, &A, &B )
SubBack ==
    /\ steps = 1
    /\ op = "add_mpi"
    /\ args = <<"X", "A", "B">>
    /\ ret = 0
    /\ Call("sub_mpi", <<"R", "X", "B">>, sgx_mpi_sub_mpi(mem, "R", "X", "B"))

NextAdd == AddMpi \/ SubMpi \/ SubBack

SpecAdd == InitAdd /\ [][NextAdd]_vars

\* C10: add_mpi( X, A, B ) returns 0 with X = A + B and sub_mpi( X, A, B )
\* returns 0 with X = A - B for all signs, magnitudes and buffer lengths of A
\* and B, and after X = A + B the difference X - B compares equal to A.
AddSubCorrect ==
    /\ op = "add_mpi" =>
         /\ ret = 0
         /\ Val(mem[args[1]]) = Val(pre[args[2]]) + Val(pre[args[3]])
    /\ op = "sub_mpi" =>
         /\ ret = 0
         /\ Val(mem[args[1]]) = Val(pre[args[2]]) - Val(pre[args[3]])
    /\ (op = "sub_mpi" /\ steps = 2) =>
         sgx_mpi_cmp_mpi(mem["R"], mem["A"]) = 0

AddSubWitness ==
    /\ op = "sub_mpi"
    /\ steps = 2
    /\ ret = 0
    /\ Val(mem["A"]) < 0 - LimbMod
    /\ Val(mem["B"]) > LimbMod
    /\ Val(mem["X"]) > 0
    /\ Val(mem["R"]) = Val(mem["A"])

(***************************************************************************)
(* Callers of msb, size, write_binary and read_binary.  The chars of the   *)
(* caller are the object "buf" of the memory.                              *)
(***************************************************************************)
MaxBinaryLimbs == 2
MaxBufLen == 5

BinaryLimbs == {0, 1, CharMod - 1, CharMod, LimbMod \div 2, LimbMod - 1}

\* objects in the init state and objects with a buffer, zero limbs on top too
BinaryValues == MPIs(BinaryLimbs, MaxBinaryLimbs) \cup {InitMPI}

InitBinary ==
    /\ \E x \in BinaryValues, len \in 0..MaxBufLen :
          mem = Memory([X |-> x, buf |-> [i \in 1..len |-> CharMod - 2]])
    /\ pre = mem
    /\ op = "none"
    /\ args = <<>>
    /\ ret = 0
    /\ steps = 0

\* mpi_msb( &X )
Msb ==
    /\ steps = 0
    /\ \E v \in MsbOutcomes(mem["X"]) :
          Call("msb", <<"X">>, [ret |-> v, h |-> mem])

\* mpi_size( &X )
Size ==
    /\ steps = 0
    /\ \E v \in MsbOutcomes(mem["X"]) :
          Call("size", <<"X">>,
               [ret |-> IF v = SIGSEGV THEN SIGSEGV ELSE SizeOf(v), h |-> mem])

\* mpi_write_binary( &X, buf, buflen ); its first statement is n = mpi_size( X )
WriteBinary ==
    /\ steps = 0
    /\ \E v \in MsbOutcomes(mem["X"]) :
          IF v = SIGSEGV
          THEN Call("write_binary", <<"X", "buf">>, Err(SIGSEGV, mem))
          ELSE Call("write_binary", <<"X", "buf">>,
                    [ret |-> WriteBinaryOf(mem["X"], mem["buf"], SizeOf(v)).ret,
                     h |-> [mem EXCEPT !["buf"] =
                              WriteBinaryOf(mem["X"], mem["buf"], SizeOf(v)).buf]])

\* mpi_read_binary( &R, buf, buflen ) on the chars write_binary left
ReadBinary ==
    /\ op = "write_binary"
    /\ ret = 0
    /\ Call("read_binary", <<"R", "buf">>, sgx_mpi_read_binary(mem, "R", mem["buf"]))

NextBinary == Msb \/ Size \/ WriteBinary \/ ReadBinary

SpecBinary == InitBinary /\ [][NextBinary]_vars

\* C25: msb( X ) is 0 for every X of value zero, the object in the init
\* state (no buffer) included, and else the one-based index of the top set
\* bit; size( X ), which calls msb, is the number of chars of that many bits.
MsbDefined ==
    /\ op = "msb" => ret = BitLen(Mag(pre["X"].p))
    /\ op = "size" => ret = SizeOf(BitLen(Mag(pre["X"].p)))

\* the number a sequence of chars spells, most significant char first
RECURSIVE CharsValue(_)
CharsValue(buf) ==
    IF buf = <<>> THEN 0
    ELSE CharsValue(SubSeq(buf, 1, Len(buf) - 1)) * CharMod + buf[Len(buf)]

\* C14: for a non-negative X with a buffer, write_binary into buflen >=
\* size( X ) chars returns 0 and leaves buflen chars that spell X, most
\* significant first and zero on the left, and read_binary of them gives an
\* MPI equal to X with sign +1; into less than size( X ) chars it fails with
\* BUFFER_TOO_SMALL and leaves the chars as they were.
BinaryRoundTrip ==
    /\ (op = "write_binary" /\ pre["X"].p # <<>> /\ pre["X"].s = 1) =>
          IF Len(pre["buf"]) >= SizeOf(BitLen(Mag(pre["X"].p)))
          THEN /\ ret = 0
               /\ Len(mem["buf"]) = Len(pre["buf"])
               /\ CharsValue(mem["buf"]) = Mag(pre["X"].p)
          ELSE /\ ret = POLARSSL_ERR_MPI_BUFFER_TOO_SMALL
               /\ mem["buf"] = pre["buf"]
    /\ (op = "read_binary" /\ mem["X"].p # <<>> /\ mem["X"].s = 1) =>
          /\ ret = 0
          /\ mem["R"].s = 1
          /\ Mag(mem["R"].p) = Mag(mem["X"].p)
          /\ sgx_mpi_cmp_mpi(mem["R"], mem["X"]) = 0

\* two limbs have been written into more chars than they need and read back
BinaryWitness ==
    /\ op = "read_binary"
    /\ ret = 0
    /\ mem["X"] = [s |-> 1, p |-> <<LimbMod - 1, CharMod>>]
    /\ Len(mem["buf"]) = MaxBufLen
    /\ mem["R"].p = <<LimbMod - 1, CharMod>>

(***************************************************************************)
(* Callers of init, free, grow, lset, copy and swap on two structs, and of  *)
(* exp_mod with one of them as the slot _RR.  The memory is the structs    *)
(* and the allocator; a caller calls init only on a struct that holds no   *)
(* buffer.                                                                 *)
(***************************************************************************)
MaxHeapCalls == 3
MaxGrowLimbs == 2

HeapRegs == {"X", "Y"}
HeapInts == {0 - 3, 0, 5}
GrowSizes == 0..MaxGrowLimbs \cup {POLARSSL_MPI_MAX_LIMBS + 1}

HeapEmpty ==
    [obj |-> [x \in HeapRegs \cup {"exp_mod.RR"} |-> InitStruct], heap |-> <<>>,
     live |-> {}, freed |-> <<>>]

\* the memories a caller starts from: X fresh, or set and grown
HeapStarts ==
    {HeapEmpty}
        \cup {sgx_mpi_grow_ptr(sgx_mpi_lset_ptr(HeapEmpty, "X", z, TRUE).m,
                               "X", n, TRUE).m :
                 z \in HeapInts, n \in 1..MaxGrowLimbs}

InitHeap ==
    /\ mem \in HeapStarts
    /\ pre = mem
    /\ op = "none"
    /\ args = <<>>
    /\ ret = 0
    /\ steps = 0

HeapCall(name, a, r) ==
    /\ steps < MaxHeapCalls
    /\ pre' = mem
    /\ mem' = r.m
    /\ op' = name
    /\ args' = a
    /\ ret' = r.ret
    /\ steps' = steps + 1

HeapInit ==
    \E x \in HeapRegs :
        /\ mem.obj[x].p = NullAddr
        /\ HeapCall("init", <<x>>, [ret |-> 0, m |-> sgx_mpi_init_ptr(mem, x)])

HeapFree ==
    \E x \in HeapRegs :
        HeapCall("free", <<x>>, [ret |-> 0, m |-> sgx_mpi_free_ptr(mem, x)])

HeapGrow ==
    \E x \in HeapRegs, n \in GrowSizes, ok \in BOOLEAN :
        HeapCall("grow", <<x, n, ok>>, sgx_mpi_grow_ptr(mem, x, n, ok))

HeapLset ==
    \E x \in HeapRegs, z \in HeapInts, ok \in BOOLEAN :
        HeapCall("lset", <<x, z, ok>>, sgx_mpi_lset_ptr(mem, x, z, ok))

HeapCopy ==
    \E x \in HeapRegs, y \in HeapRegs, ok \in BOOLEAN :
        HeapCall("copy", <<x, y, ok>>, sgx_mpi_copy_ptr(mem, x, y, ok))

HeapSwap ==
    \E x \in HeapRegs, y \in HeapRegs :
        HeapCall("swap", <<x, y>>, [ret |-> 0, m |-> sgx_mpi_swap_ptr(mem, x, y)])

\* what exp_mod is called with next to the slot: A, E and N
HeapBases == {[s |-> 1, p |-> <<7>>], [s |-> 0 - 1, p |-> <<6, 9>>]}
HeapExponent == [s |-> 1, p |-> <<11>>]
HeapModuli == {<<7>>, <<9, 0>>, <<11, 6>>}
FailPoints == {"none", "early", "lset", "shift_l", "mod_mpi", "late"}

\* the limbs of R^2 mod N as lset, shift_l and mod_mpi leave them in RR
ExpRRLimbs ==
    [n \in HeapModuli |->
        ExpRR(1, Ok(Memory([N |-> [s |-> 1, p |-> n]])), "N", NULL).h["exp_mod.RR"].p]

\* exp_mod( &X, &A, &E, &N, _RR ) with _RR NULL, a slot in the init state,
\* or the slot the call before it was given with the same N
HeapExpMod ==
    \E slot \in HeapRegs \cup {NULL}, a \in HeapBases, n \in HeapModuli,
       fail \in FailPoints :
        /\ \/ slot = NULL
           \/ slot # NULL /\ mem.obj[slot] = InitStruct
           \/ op = "exp_mod" /\ args[1] = slot /\ args[3] = n
                /\ slot # NULL /\ mem.obj[slot].p # NullAddr
        /\ HeapCall("exp_mod", <<slot, a, n, fail>>,
                    sgx_mpi_exp_mod_ptr(mem, slot, Len(n), ExpRRLimbs[n], fail))

NextHeap ==
    \/ HeapInit \/ HeapFree \/ HeapGrow \/ HeapLset \/ HeapCopy \/ HeapSwap
    \/ HeapExpMod

SpecHeap == InitHeap /\ [][NextHeap]_vars

\* what the call released, in order
Released == SubSeq(mem.freed, Len(pre.freed) + 1, Len(mem.freed))

\* the release of the buffer a struct held before the call, its limbs all zero
ZeroRelease(x) ==
    <<[a |-> pre.obj[x].p, limbs |-> Zeros(pre.obj[x].n)]>>

\* C17: free( X ) sets every limb of the buffer of X to zero, releases the
\* buffer and puts X in the init state; on a struct without a buffer it
\* releases nothing and leaves the init state.  A grow that replaces the
\* buffer zeroizes and releases the old one.  No buffer is released twice.
FreeZeroizes ==
    /\ \A i \in 1..Len(mem.freed) :
          /\ \A j \in 1..Len(mem.freed[i].limbs) : mem.freed[i].limbs[j] = 0
          /\ \A k \in 1..Len(mem.freed) : k # i => mem.freed[k].a # mem.freed[i].a
    /\ op = "free" =>
          /\ mem.obj[args[1]] = InitStruct
          /\ Released = IF pre.obj[args[1]].p = NullAddr THEN <<>>
                        ELSE ZeroRelease(args[1])
    /\ (op = "grow" /\ ret = 0 /\ pre.obj[args[1]].n < args[2]) =>
          Released = IF pre.obj[args[1]].p = NullAddr THEN <<>>
                     ELSE ZeroRelease(args[1])

FreeWitness ==
    /\ op = "free"
    /\ pre.obj["X"].p # NullAddr
    /\ pre.heap[pre.obj["X"].p] = <<5, 0>>
    /\ args = <<"X">>
    /\ Len(mem.freed) = 2
    /\ Released = <<[a |-> pre.obj["X"].p, limbs |-> <<0, 0>>]>>

\* C18: a successful copy( X, Y ) with X and Y distinct leaves in X the sign
\* and value of Y in a buffer of its own, or X in the init state when Y has
\* no buffer, and leaves Y as it was; copy( X, X ) changes nothing.  No two structs hold the same buffer and every buffer
\* held is live, so that init, free, grow and lset on one struct leave the
\* others as they were.
CopyOwnership ==
    /\ \A x \in HeapRegs :
          mem.obj[x].p # NullAddr =>
              /\ mem.obj[x].p \in mem.live
              /\ Len(mem.heap[mem.obj[x].p]) = mem.obj[x].n
              /\ \A y \in HeapRegs \ {x} : mem.obj[y].p # mem.obj[x].p
    /\ (op = "copy" /\ ret = 0 /\ args[1] # args[2]) =>
          /\ IF pre.obj[args[2]].p = NullAddr
             THEN mem.obj[args[1]] = InitStruct
             ELSE /\ StructView(mem, args[1]).s = StructView(pre, args[2]).s
                  /\ Mag(StructView(mem, args[1]).p)
                       = Mag(StructView(pre, args[2]).p)
          /\ StructView(mem, args[2]) = StructView(pre, args[2])
          /\ mem.obj[args[2]] = pre.obj[args[2]]
    /\ (op = "copy" /\ args[1] = args[2]) => (ret = 0 /\ mem = pre)
    /\ op \in {"init", "free", "grow", "lset"} =>
          \A y \in HeapRegs \ {args[1]} : StructView(mem, y) = StructView(pre, y)

CopyWitness ==
    /\ op = "copy"
    /\ args = <<"Y", "X", TRUE>>
    /\ ret = 0
    /\ StructView(pre, "Y") = [s |-> 1, p |-> <<5>>]
    /\ StructView(pre, "X") = [s |-> 0 - 1, p |-> <<3, 0>>]
    /\ StructView(mem, "Y") = [s |-> 0 - 1, p |-> <<3>>]
    /\ mem.obj["Y"].p # mem.obj["X"].p

\* C19: grow( X, n ) with n > POLARSSL_MPI_MAX_LIMBS returns MALLOC_FAILED
\* and changes nothing; with n <= X->n it returns 0 and changes nothing;
\* else, the allocator delivering, it returns 0 with X->n = n, the sign and
\* the old limbs kept and the limbs above them zero (and MALLOC_FAILED with
\* nothing changed when the allocator does not deliver).  No length exceeds
\* POLARSSL_MPI_MAX_LIMBS, and a length decreases only through free, swap
\* or a copy from a struct without a buffer.
GrowContract ==
    /\ \A x \in HeapRegs : mem.obj[x].n <= POLARSSL_MPI_MAX_LIMBS
    /\ op = "grow" =>
          IF args[2] > POLARSSL_MPI_MAX_LIMBS
          THEN ret = POLARSSL_ERR_MPI_MALLOC_FAILED /\ mem = pre
          ELSE IF args[2] <= pre.obj[args[1]].n
          THEN ret = 0 /\ mem = pre
          ELSE IF args[3]
          THEN /\ ret = 0
               /\ mem.obj[args[1]].n = args[2]
               /\ StructView(mem, args[1]) =
                     [s |-> pre.obj[args[1]].s,
                      p |-> StructView(pre, args[1]).p
                              \o Zeros(args[2] - pre.obj[args[1]].n)]
          ELSE ret = POLARSSL_ERR_MPI_MALLOC_FAILED /\ mem = pre
    /\ \A x \in HeapRegs :
          mem.obj[x].n < pre.obj[x].n =>
              \/ op = "free" /\ args[1] = x
              \/ op = "swap"
              \/ op = "copy" /\ args[1] = x /\ pre.obj[args[2]].p = NullAddr

GrowWitness ==
    /\ op = "grow"
    /\ args = <<"X", MaxGrowLimbs, TRUE>>
    /\ ret = 0
    /\ StructView(pre, "X") = [s |-> 0 - 1, p |-> <<3>>]
    /\ StructView(mem, "X") = [s |-> 0 - 1, p |-> <<3>> \o Zeros(MaxGrowLimbs - 1)]
    /\ Len(Released) = 1

\* the X a call of exp_mod leaves, the slot holding the mpi rr or not given
ExpResult(a, n, slot, rr) ==
    sgx_mpi_exp_mod(Memory([A |-> a, E |-> HeapExponent, N |-> [s |-> 1, p |-> n],
                            RR |-> rr]),
                    "X", "A", "E", "N", slot)

\* C26: a successful exp_mod given a slot in the init state leaves R^2 mod N
\* in it; a later call with the slot and the same N leaves the X of a call
\* without a slot; exp_mod releases no buffer a slot holds, and when it
\* returns without a slot filled every buffer it took for R^2 is released.
ExpCacheOwnership ==
    op = "exp_mod" =>
        /\ (args[1] # NULL /\ ret = 0) =>
              /\ StructView(mem, args[1]).s = 1
              /\ Mag(StructView(mem, args[1]).p)
                   = PowMod(2 % Mag(args[3]), <<2 * Len(args[3]) * biL>>, Mag(args[3]))
              /\ ExpResult(args[2], args[3], "RR", StructView(mem, args[1])).ret = 0
              /\ ExpResult(args[2], args[3], "RR", StructView(mem, args[1])).h["X"]
                   = ExpResult(args[2], args[3], NULL, InitMPI).h["X"]
        /\ \A x \in HeapRegs :
              pre.obj[x].p # NullAddr =>
                  /\ mem.obj[x] = pre.obj[x]
                  /\ mem.heap[mem.obj[x].p] = pre.heap[pre.obj[x].p]
                  /\ mem.obj[x].p \in mem.live
        /\ \A x \in HeapRegs : mem.obj[x].p # NullAddr => mem.obj[x].p \in mem.live
        /\ mem.live = {mem.obj[x].p : x \in HeapRegs} \ {NullAddr}
        /\ \A i \in 1..Len(Released) :
              \A j \in 1..Len(Released[i].limbs) : Released[i].limbs[j] = 0
        /\ (args[1] = NULL \/ ret # 0) =>
              \/ mem.live = pre.live
              \/ args[1] # NULL /\ args[4] = "late" /\ pre.obj[args[1]] = InitStruct

\* a second call in a row with the slot Y, filled by the first
ExpCacheWitness ==
    /\ op = "exp_mod"
    /\ args = <<"Y", [s |-> 0 - 1, p |-> <<6, 9>>], <<11, 6>>, "none">>
    /\ ret = 0
    /\ pre.obj["Y"].p # NullAddr
    /\ mem.obj["Y"] = pre.obj["Y"]
    /\ Len(mem.heap[mem.obj["Y"].p]) = 2 * 2 + 1
    /\ Released = <<>>
    /\ steps = 2

(***************************************************************************)
(* Callers of montmul and montred as exp_mod calls them: A of N->n + 1     *)
(* limbs and below N, the scratch T, B below N or R^2 mod N.  X keeps the  *)
(* value A starts with.                                                    *)
(***************************************************************************)
MaxMontValue == 13

\* odd moduli of one and two limbs, one with a zero limb on top
MontModuli ==
    {<<3>>, <<7>>, <<13>>, <<LimbMod - 1>>, <<9, 0>>, <<11, 6>>,
     <<LimbMod - 1, LimbMod \div 2 - 1>>}

\* the values below the modulus np that A and B take
MontValues(np) ==
    {v \in (0..MaxMontValue)
             \cup {Mag(np) \div 2, Mag(np) - LimbMod, Mag(np) - 2, Mag(np) - 1} :
        0 <= v /\ v < Mag(np)}

\* R^2 mod N as exp_mod computes it
MontRR(np) ==
    ExpRR(1, Ok(Memory([N |-> [s |-> 1, p |-> np]])), "N", NULL).h["exp_mod.RR"]

InitMont ==
    /\ \E np \in MontModuli, room \in {1, 2} :
          \E a \in MontValues(np) :
             \E b \in {MpiOf(v, Len(np)) : v \in MontValues(np)}
                        \cup {MpiOf(v, 1) : v \in MontValues(np) \cap 0..(LimbMod - 1)}
                        \cup {MontRR(np)} :
                mem = [x \in {"exp_mod.T"} |->
                          [s |-> 1, p |-> Zeros(2 * Len(np) + room)]]
                        @@ Memory([A |-> MpiOf(a, Len(np) + 1),
                                   X |-> MpiOf(a, Len(np) + 1),
                                   B |-> b, N |-> [s |-> 1, p |-> np]])
    /\ pre = mem
    /\ op = "none"
    /\ args = <<>>
    /\ ret = 0
    /\ steps = 0

\* the limbs montmul leaves in A and T
MontStore(h, A, r) ==
    [h EXCEPT ![A].p = r.a, !["exp_mod.T"].p = SubSeq(r.t, 1, Len(@))]

\* a call of montmul: when it touches a limb outside T or A the call faults
\* or the access lands in what lies behind the buffer
MontCall(name, B, bp) ==
    \E inside \in {TRUE, MontLast(mem["A"].p, bp, mem["N"].p,
                                  sgx_mpi_montg_init(mem["N"])).t
                            < Len(mem["exp_mod.T"].p)} :
        Call(name, <<"A", B, "N", "exp_mod.T">>,
             IF inside
             THEN Ok(MontStore(mem, "A",
                               sgx_mpi_montmul(mem["A"].p, bp, mem["N"].p,
                                               sgx_mpi_montg_init(mem["N"]),
                                               Max(Len(mem["exp_mod.T"].p),
                                                   2 * (Len(mem["N"].p) + 1)))))
             ELSE Err(SIGSEGV, mem))

\* mpi_montmul( &A, &B, &N, mm, &T )
Montmul ==
    /\ steps = 0
    /\ MontCall("montmul", "B", mem["B"].p)

\* mpi_montred( &A, &N, mm, &T ) on what montmul left
Montred ==
    /\ op = "montmul"
    /\ ret = 0
    /\ MontCall("montred", "U", <<1>>)

NextMont == Montmul \/ Montred

SpecMont == InitMont /\ [][NextMont]_vars

\* R mod N for R = 2^(biL * n)
MontR(np) == (2 ^ (biL * Len(np))) % Mag(np)

\* C27: for odd N, A and B below N, montmul leaves A below N with
\* A * R = A0 * B0 mod N (A0, B0 the values before the call) and leaves B and
\* N as they were; montmul by R^2 mod N followed by montred gives back the
\* value A started with.
MontmulCorrect ==
    /\ (op = "montmul" /\ ret = 0) =>
          /\ Mag(mem["A"].p) < Mag(pre["N"].p)
          /\ (Mag(mem["A"].p) * MontR(pre["N"].p)) % Mag(pre["N"].p)
               = (Mag(pre["A"].p) * Mag(pre["B"].p)) % Mag(pre["N"].p)
          /\ mem["B"] = pre["B"]
          /\ mem["N"] = pre["N"]
          /\ Len(mem["A"].p) = Len(pre["A"].p)
    /\ (op = "montred" /\ ret = 0) =>
          /\ Mag(mem["A"].p) < Mag(pre["N"].p)
          /\ (Mag(mem["A"].p) * MontR(pre["N"].p)) % Mag(pre["N"].p)
               = Mag(pre["A"].p) % Mag(pre["N"].p)
          /\ mem["B"] = MontRR(mem["N"].p) => Mag(mem["A"].p) = Mag(mem["X"].p)

\* the round trip of the largest value below the largest modulus
MontmulWitness ==
    /\ op = "montred"
    /\ ret = 0
    /\ mem["N"].p = <<LimbMod - 1, LimbMod \div 2 - 1>>
    /\ mem["B"] = MontRR(mem["N"].p)
    /\ mem["X"].p = <<LimbMod - 2, LimbMod \div 2 - 1, 0>>
    /\ mem["A"] = mem["X"]
    /\ pre["A"] # mem["X"]

\* the limbs montmul touches lie in T and in A
MontInside ==
    /\ MontLast(pre["A"].p, IF op = "montred" THEN <<1>> ELSE pre["B"].p,
                pre["N"].p, sgx_mpi_montg_init(pre["N"])).t < Len(pre["exp_mod.T"].p)
    /\ MontLast(pre["A"].p, IF op = "montred" THEN <<1>> ELSE pre["B"].p,
                pre["N"].p, sgx_mpi_montg_init(pre["N"])).a < Len(pre["A"].p)

\* C28 as the spec has it: with T of 2n + 1 limbs and A of n + 1 limbs every
\* limb montmul reads or writes lies inside the limbs of T and of A.
MontInsideTight ==
    (op \in {"montmul", "montred"}
        /\ Len(pre["exp_mod.T"].p) = 2 * Len(pre["N"].p) + 1
        /\ Len(pre["A"].p) = Len(pre["N"].p) + 1) => MontInside

\* C28 with the T exp_mod grows: with T of 2 * ( n + 1 ) limbs and A of n + 1
\* limbs every limb montmul reads or writes lies inside the limbs of T and
\* of A, and the clear d[n + 1] = 0 of the last round is the last limb of T.
MontInsideRoom ==
    (op \in {"montmul", "montred"}
        /\ Len(pre["exp_mod.T"].p) = 2 * (Len(pre["N"].p) + 1)
        /\ Len(pre["A"].p) = Len(pre["N"].p) + 1) =>
            /\ MontInside
            /\ ret = 0

MontInsideWitness ==
    /\ op = "montmul"
    /\ ret = 0
    /\ Len(pre["exp_mod.T"].p) = 2 * (Len(pre["N"].p) + 1)
    /\ pre["N"].p = <<LimbMod - 1, LimbMod \div 2 - 1>>
    /\ pre["A"].p = <<LimbMod - 2, LimbMod \div 2 - 1, 0>>
    /\ pre["B"].p = <<LimbMod - 2, LimbMod \div 2 - 1>>
    /\ MontLast(pre["A"].p, pre["B"].p, pre["N"].p,
                sgx_mpi_montg_init(pre["N"])).t = Len(pre["exp_mod.T"].p) - 1

(***************************************************************************)
(* The scan of the bits of E in exp_mod, one iteration of while( 1 ) at a  *)
(* time.  E has len limbs and lead zero bits on top; the bits below its    *)
(* top set bit are any.  The memory is the locals of the scan: the bits    *)
(* left, nbits, wbits and state (in st), and whether a 1 bit was read.     *)
(***************************************************************************)
MaxScanLimbs == 85

\* lengths of E that reach the window sizes 1, 3, 4, 5 and 6
ScanLimbs == {1, 2, 3, 4, 11, 31, MaxScanLimbs}

InitScan ==
    /\ \E len \in ScanLimbs :
          \E lead \in {0, 1, biL - 1, biL, biL + 3, len * biL} :
             /\ lead <= len * biL
             /\ mem = [wsize |-> WindowSize(len * biL - lead),
                       left |-> len * biL,
                       lead |-> lead,
                       seen |-> FALSE,
                       st |-> [x |-> <<>>, nbits |-> 0, wbits |-> 0, state |-> 0]]
    /\ pre = mem
    /\ op = "none"
    /\ args = <<>>
    /\ ret = 0
    /\ steps = 0

\* what the iteration reads of k: the bit, as bit 0 of a limb, and wsize
ScanKey(ei) == [ep |-> <<ei>>, wsize |-> mem.wsize, np |-> <<>>, mm |-> 0, tn |-> 0,
                w |-> <<>>]

\* the iteration for the bit ei; ret is the index of the table entry it uses
ScanStep(ei) ==
    /\ pre' = mem
    /\ mem' = [mem EXCEPT !.left = @ - 1,
                          !.lead = IF @ > 0 THEN @ - 1 ELSE 0,
                          !.seen = @ \/ ei = 1,
                          !.st = ExpBitStep(ScanKey(ei), mem.st, 0, 0)]
    /\ op' = "exp_mod.bit"
    /\ args' = <<ei>>
    /\ ret' = ExpLookup(ScanKey(ei), mem.st, 0, 0)
    /\ steps' = steps + 1

ScanBit ==
    /\ mem.left > 0
    /\ \E ei \in {0, 1} :
          /\ mem.lead > 0 => ei = 0
          /\ (mem.lead = 0 /\ ~mem.seen) => ei = 1
          /\ ScanStep(ei)

\* process the remaining bits: ret is the set of table entries the loop uses
ScanFlush ==
    /\ mem.left = 0
    /\ op # "exp_mod.flush"
    /\ pre' = mem
    /\ mem' = [mem EXCEPT !.st.nbits = 0]
    /\ op' = "exp_mod.flush"
    /\ args' = <<>>
    /\ ret' = {1 : i \in {j \in 1..mem.st.nbits :
                            ((mem.st.wbits * 2^j) \div 2^mem.wsize) % 2 # 0}}
    /\ steps' = steps + 1

NextScan == ScanBit \/ ScanFlush

SpecScan == InitScan /\ [][NextScan]_vars

\* the entries of W that exp_mod fills for the window size w
TableEntries(w) == IF w > 1 THEN {1} \cup (2^(w - 1))..(2^w - 1) ELSE {1}

\* C29: once a 1 bit is read the scan is never in state 0 again; nbits stays
\* in 0 .. wsize - 1 between iterations; every lookup W[wbits] has
\* 2^(wsize-1) <= wbits <= 2^wsize - 1 (1 for wsize 1), an entry the table
\* holds; the flush after the scan uses W[1] only.
ScanWindow ==
    /\ mem.seen => mem.st.state # 0
    /\ mem.st.state \in {0, 1, 2}
    /\ 0 <= mem.st.nbits /\ mem.st.nbits < mem.wsize
    /\ (op = "exp_mod.bit" /\ ret # 0) =>
          /\ 2^(mem.wsize - 1) <= ret
          /\ ret <= 2^mem.wsize - 1
          /\ ret \in TableEntries(mem.wsize)
    /\ op = "exp_mod.flush" => ret \subseteq {1}

\* a window of six 1 bits is looked up after windows before it
ScanWitness ==
    /\ op = "exp_mod.bit"
    /\ mem.wsize = 6
    /\ ret = 2^6 - 1
    /\ mem.left < (MaxScanLimbs - 3) * biL
    /\ mem.st.state = 1

(***************************************************************************)
(* Callers of is_prime                                                     *)
(***************************************************************************)
\* the candidates are the integers of magnitude 0 .. MaxPrimeValue (every
\* table prime and every product of two of them is among them) and two
\* candidates of two limbs, in buffers of one and two limbs
MaxPrimeValue == 175

PrimeValues ==
    LET mags == (0..MaxPrimeValue) \cup {LimbMod + 1, 17 * 17}
    IN  mags \cup {0 - m : m \in mags}

\* random sources: constant and changing streams, one that fails at once
PrimeRngs ==
    {[a |-> a, b |-> b, pos |-> 0, left |-> left] :
        a \in {0, 9}, b \in {0, 7}, left \in {0, 40}}

InitPrime ==
    /\ \E x \in MpisOf(PrimeValues, 2), g \in PrimeRngs :
          mem = Memory([X |-> x, p_rng |-> g])
    /\ pre = mem
    /\ op = "none"
    /\ args = <<>>
    /\ ret = 0
    /\ steps = 0

\* mpi_is_prime( &X, p_rng )
IsPrime ==
    /\ steps = 0
    /\ Call("is_prime", <<"X", "p_rng">>, sgx_mpi_is_prime(mem, "X", "p_rng"))

NextPrime == IsPrime

SpecPrime == InitPrime /\ [][NextPrime]_vars

\* the primes of the table, and the products of two of them
TablePrimes == {small_prime[i] : i \in 1..(Len(small_prime) - 1)}

TableProducts == {p * q : p \in TablePrimes, q \in TablePrimes}

\* C11: whatever the random source gives, is_prime returns 0 for 2 and for
\* every prime of the small_prime table, NOT_ACCEPTABLE for every product of
\* two table primes and for 0 and 1, and the same status for X and -X.
IsPrimeTable ==
    op = "is_prime" =>
        /\ Mag(pre["X"].p) \in TablePrimes \cup {2} => ret = 0
        /\ Mag(pre["X"].p) \in TableProducts \cup {0, 1} =>
             ret = POLARSSL_ERR_MPI_NOT_ACCEPTABLE
        /\ ret = sgx_mpi_is_prime([pre EXCEPT !["X"].s = 0 - @], "X", "p_rng").ret

\* is_prime has accepted the last prime of the table, given with a minus sign
\* and a leading zero limb
IsPrimeWitness ==
    /\ op = "is_prime"
    /\ pre["X"].s = 0 - 1
    /\ pre["X"].p = <<13, 0>>
    /\ ret = 0

(***************************************************************************)
(* The Miller-Rabin test, one round at a time.  op = "miller_rabin.round"  *)
(* is the head of for( i = 0; i < n; i++ ) with i in args[3], op =         *)
(* "miller_rabin.base" the call of exp_mod with the base in the local A,   *)
(* and "miller_rabin.return" the return after cleanup.                     *)
(***************************************************************************)
MaxMillerValue == 45

\* the candidates is_prime and gen_prime hand over: odd, no factor in the table
MillerValues ==
    {v \in (3..MaxMillerValue) \cup {LimbMod + 1} :
        sgx_mpi_check_small_factors(MpiOf(v, 2)) = 0}

\* random sources: constant and changing streams, one that fails in round 2
MillerRngs ==
    {[a |-> a, b |-> b, pos |-> 0, left |-> left] :
        a \in {0, 1, 2, 9}, b \in {0, 7, 15}, left \in {2, 5000}}

InitMiller ==
    /\ \E x \in MpisOf(MillerValues, 2), g \in MillerRngs :
          mem = Memory([X |-> x, p_rng |-> g])
    /\ pre = mem
    /\ op = "none"
    /\ args = <<>>
    /\ ret = 0
    /\ steps = 0

\* mpi_miller_rabin( &X, p_rng ) up to the head of the loop
MillerEnter ==
    /\ steps = 0
    /\ LET r == MillerHead(mem, "X")
       IN  IF r.ret = 0
           THEN Call("miller_rabin.round", <<"X", "p_rng", 0>>, r)
           ELSE Call("miller_rabin.return", <<"X", "p_rng", 0>>,
                     Release(r, MillerLocals))

\* i < n: the base of round i is drawn; i = n: the loop is left
MillerDrawBase ==
    /\ op = "miller_rabin.round"
    /\ IF args[3] < MillerCount(sgx_mpi_msb(mem["X"]))
       THEN LET r == MillerDraw(mem, "X", "p_rng")
            IN  IF r.ret = 0
                THEN Call("miller_rabin.base", args, r)
                ELSE Call("miller_rabin.return", args, Release(r, MillerLocals))
       ELSE Call("miller_rabin.return", args, Release(Ok(mem), MillerLocals))

\* exp_mod on the base, the squarings and the verdict of the round
MillerTest ==
    /\ op = "miller_rabin.base"
    /\ LET r == MillerWitness(MillerPower(Ok(mem), "X"), "X",
                              sgx_mpi_lsb(mem["miller_rabin.W"]))
       IN  IF r.ret = 0
           THEN Call("miller_rabin.round", <<"X", "p_rng", args[3] + 1>>, r)
           ELSE Call("miller_rabin.return", args, Release(r, MillerLocals))

NextMiller == MillerEnter \/ MillerDrawBase \/ MillerTest

SpecMiller == InitMiller /\ [][NextMiller]_vars

\* C22: in every round and for every output of the random source, the base A
\* handed to exp_mod, after the shift and after the two low bits are set, has
\* 2 <= A <= X - 2.
MillerBaseRange ==
    op = "miller_rabin.base" =>
        /\ 2 <= Val(mem["miller_rabin.A"])
        /\ Val(mem["miller_rabin.A"]) <= Val(mem["X"]) - 2

(***************************************************************************)
(* Callers of gen_prime.  The safe-prime path is also run one candidate at *)
(* a time: op = "gen_prime.candidate" is the head of while( 1 ), with the  *)
(* local Y alive, and "gen_prime.return" the return after cleanup.         *)
(***************************************************************************)
\* the sizes asked for: 2 .. MaxGenBits and one above POLARSSL_MPI_MAX_BITS
MaxGenBits == 6

GenBits == (2..MaxGenBits) \cup {POLARSSL_MPI_MAX_BITS + 1}

\* random sources: constant and changing streams; one fails at once, one
\* during the first Miller-Rabin test
GenRngs ==
    {[a |-> a, b |-> b, pos |-> 0, left |-> left] :
        a \in {0, 5, 9, 14}, b \in {0, 3}, left \in {0, 20, 5000}}

InitGen ==
    /\ \E x \in {InitMPI, MpiOf(0 - 5, 2)}, g \in GenRngs :
          mem = Memory([X |-> x, p_rng |-> g])
    /\ pre = mem
    /\ op = "none"
    /\ args = <<>>
    /\ ret = 0
    /\ steps = 0

\* mpi_gen_prime( &X, nbits, dh_flag, p_rng )
GenPrime ==
    /\ steps = 0
    /\ \E nbits \in GenBits, dh_flag \in {0, 1} :
          Call("gen_prime", <<"X", nbits, dh_flag, "p_rng">>,
               sgx_mpi_gen_prime(mem, "X", nbits, dh_flag, "p_rng"))

\* gen_prime with dh_flag = 1, up to the head of while( 1 )
SafeEnter ==
    /\ steps = 0
    /\ \E nbits \in GenBits \cap (3..POLARSSL_MPI_MAX_BITS) :
          LET r == SafeHead(mem, "X", nbits, "p_rng")
          IN  IF r.ret = 0
              THEN Call("gen_prime.candidate", <<"X", nbits, 1, "p_rng">>, r)
              ELSE Call("gen_prime.return", <<"X", nbits, 1, "p_rng">>,
                        Release(r, {"gen_prime.Y"}))

\* one pass of while( 1 ): the test, then break, goto cleanup or the next candidates
SafeTry ==
    /\ op = "gen_prime.candidate"
    /\ LET q == SafeStep(SafeTest(mem, "X", "p_rng"), "X")
       IN  IF q.done
           THEN Call("gen_prime.return", args, Release(q, {"gen_prime.Y"}))
           ELSE Call("gen_prime.candidate", args, q)

NextGen == GenPrime \/ SafeEnter \/ SafeTry

SpecGen == InitGen /\ [][NextGen]_vars

\* C12: at the head of while( 1 ) of the safe-prime path Y = ( X - 1 ) / 2,
\* X mod 4 = 3 and X mod 3 = 2; and gen_prime returns 0 from that path only
\* after a pass in which X and Y both had no small factor and both passed
\* Miller-Rabin.
SafeCandidates ==
    /\ op = "gen_prime.candidate" =>
         /\ 2 * Val(mem["gen_prime.Y"]) + 1 = Val(mem["X"])
         /\ Val(mem["X"]) % 4 = 3
         /\ Val(mem["X"]) % 3 = 2
    /\ (op = "gen_prime.return" /\ ret = 0) =>
         /\ sgx_mpi_check_small_factors(pre["X"]) = 0
         /\ sgx_mpi_check_small_factors(pre["gen_prime.Y"]) = 0
         /\ sgx_mpi_miller_rabin(pre, "X", "p_rng").ret = 0
         /\ sgx_mpi_miller_rabin(sgx_mpi_miller_rabin(pre, "X", "p_rng").h,
                                 "gen_prime.Y", "p_rng").ret = 0

\* the safe-prime path has returned 0 after it moved on from a candidate
SafeWitness ==
    /\ op = "gen_prime.return"
    /\ ret = 0
    /\ steps > 2
    /\ Val(mem["X"]) % 4 = 3

\* the status codes of the library, and that of the random source
DefinedErrors ==
    {POLARSSL_ERR_MPI_BAD_INPUT_DATA, POLARSSL_ERR_MPI_INVALID_CHARACTER,
     POLARSSL_ERR_MPI_BUFFER_TOO_SMALL, POLARSSL_ERR_MPI_NEGATIVE_VALUE,
     POLARSSL_ERR_MPI_DIVISION_BY_ZERO, POLARSSL_ERR_MPI_NOT_ACCEPTABLE,
     POLARSSL_ERR_MPI_MALLOC_FAILED, POLARSSL_ERR_CTR_DRBG_ENTROPY_SOURCE_FAILED}

\* the memory with the random source set back by k Miller-Rabin tests of one
\* limb (a test draws X->n * ciL chars in each of its 27 rounds)
Rewound(h, k) ==
    [h EXCEPT !["p_rng"].pos = @ - k * MillerCount(biL) * ciL,
              !["p_rng"].left = @ + 4 * MillerCount(biL)]

\* X is accepted by is_prime on the chars gen_prime drew for its last test
PassesIsPrime(h) ==
    \E k \in 0..4 :
        /\ h["p_rng"].pos >= k * MillerCount(biL) * ciL
        /\ sgx_mpi_is_prime(Rewound(h, k), "X", "p_rng").ret = 0

\* C13: gen_prime returns 0 or a defined error code, never the 1 of
\* check_small_factors, and when it returns 0 the X it leaves passes is_prime.
GenPrimeStatus ==
    op \in {"gen_prime", "gen_prime.return"} =>
        /\ ret \in DefinedErrors \cup {0}
        /\ ret = 0 => PassesIsPrime(mem)

(***************************************************************************)
(* Modulo by a word: mod_int over signed values and every kind of b        *)
(***************************************************************************)
MaxModIntLimbs == 2
\* the largest t_sint of the machine: b is a t_sint, a limb wide
MaxSint == LimbMod \div 2 - 1
ModIntLimbs == {0, 1, HalfMod - 1, HalfMod, 100, LimbMod - 1}
ModIntValues == MPIs(ModIntLimbs, MaxModIntLimbs)
ModIntWords ==
    {0 - MaxSint - 1, 0 - 1, 0, 1, 2, 3, 7, HalfMod - 1, HalfMod, HalfMod + 1,
     100, MaxSint}

InitModInt ==
    /\ \E a \in ModIntValues :
          mem = [x \in {"mod_int.r"} |-> LimbMod - 2] @@ Memory([A |-> a])
    /\ pre = mem
    /\ op = "none"
    /\ args = <<>>
    /\ ret = 0
    /\ steps = 0

\* mpi_mod_int( &r, &A, b )
ModInt ==
    /\ steps = 0
    /\ \E b \in ModIntWords :
          Call("mod_int", <<"mod_int.r", "A", b>>,
               [ret |-> sgx_mpi_mod_int(mem["mod_int.r"], mem["A"], b).ret,
                h |-> [mem EXCEPT !["mod_int.r"] =
                         sgx_mpi_mod_int(mem["mod_int.r"], mem["A"], b).r]])

\* mpi_mod_int( &r, &A, b ) once more, on the same A
ModIntAgain ==
    /\ op = "mod_int"
    /\ steps = 1
    /\ \E b \in ModIntWords :
          Call("mod_int", <<"mod_int.r", "A", b>>,
               [ret |-> sgx_mpi_mod_int(mem["mod_int.r"], mem["A"], b).ret,
                h |-> [mem EXCEPT !["mod_int.r"] =
                         sgx_mpi_mod_int(mem["mod_int.r"], mem["A"], b).r]])

NextModInt == ModInt \/ ModIntAgain

SpecModInt == InitModInt /\ [][NextModInt]_vars

\* C30: for every signed A with a buffer and every b with 0 < b <= the largest
\* t_sint, mod_int returns 0 and leaves 0 <= r < b with r congruent to A
\* modulo b, also for b >= 2^(biL/2); for b = 0 it fails with
\* DIVISION_BY_ZERO and for b < 0 with NEGATIVE_VALUE
ModIntCorrect ==
    op = "mod_int" =>
        /\ args[3] > 0 =>
              /\ ret = 0
              /\ mem["mod_int.r"] >= 0
              /\ mem["mod_int.r"] < args[3]
              /\ mem["mod_int.r"] = Val(pre["A"]) % args[3]
        /\ args[3] = 0 => ret = POLARSSL_ERR_MPI_DIVISION_BY_ZERO
        /\ args[3] < 0 => ret = POLARSSL_ERR_MPI_NEGATIVE_VALUE

(***************************************************************************)
(* Comparison over every pair of buffers, signs and leading zero limbs     *)
(***************************************************************************)
MaxCmpLimbs == 3
CmpLimbValues == {0, 1, LimbMod - 1}
\* every buffer of 1 .. MaxCmpLimbs limbs with either stored sign, the zero
\* ones with the sign -1 included (mul_int( X, A, 0 ) with a negative A
\* leaves one)
CmpValues ==
    {[s |-> sg, p |-> b] : sg \in Signs, b \in Buffers(CmpLimbValues, MaxCmpLimbs)}
CmpInts == {0 - MaxSint - 1, 0 - 100, 0 - 1, 0, 1, 100, MaxSint}
Sign(v) == IF v > 0 THEN 1 ELSE IF v < 0 THEN 0 - 1 ELSE 0

InitCmp ==
    /\ \E x \in CmpValues, y \in CmpValues : mem = Memory([X |-> x, Y |-> y])
    /\ pre = mem
    /\ op = "none"
    /\ args = <<>>
    /\ ret = 0
    /\ steps = 0

\* mpi_cmp_mpi( &X, &Y ), mpi_cmp_mpi( &Y, &X ) and a value against itself
CmpMpi ==
    /\ steps = 0
    /\ \E a \in {"X", "Y"}, b \in {"X", "Y"} :
          Call("cmp_mpi", <<a, b>>,
               [ret |-> sgx_mpi_cmp_mpi(mem[a], mem[b]), h |-> mem])

\* mpi_cmp_abs( &X, &Y ) and mpi_cmp_abs( &Y, &X )
CmpAbs ==
    /\ steps = 0
    /\ \E a \in {"X", "Y"}, b \in {"X", "Y"} :
          Call("cmp_abs", <<a, b>>,
               [ret |-> sgx_mpi_cmp_abs(mem[a], mem[b]), h |-> mem])

\* mpi_cmp_int( &X, z )
CmpInt ==
    /\ steps = 0
    /\ \E z \in CmpInts :
          Call("cmp_int", <<"X", z>>,
               [ret |-> sgx_mpi_cmp_int(mem["X"], z), h |-> mem])

NextCmp == CmpMpi \/ CmpAbs \/ CmpInt

SpecCmp == InitCmp /\ [][NextCmp]_vars

\* C20: for buffers of any length with any leading zero limbs cmp_mpi(X, Y)
\* is the sign of X - Y, 0 for two zero magnitudes whatever the stored
\* signs, and the opposite of cmp_mpi(Y, X); cmp_abs is the sign of
\* |X| - |Y|; cmp_int(X, z) is cmp_mpi against the one-limb value z
CmpIsSignOfDifference ==
    /\ op = "cmp_mpi" =>
          /\ ret = Sign(Val(mem[args[1]]) - Val(mem[args[2]]))
          /\ ret = 0 - sgx_mpi_cmp_mpi(mem[args[2]], mem[args[1]])
    /\ op = "cmp_abs" =>
          /\ ret = Sign(Mag(mem[args[1]].p) - Mag(mem[args[2]].p))
          /\ ret = 0 - sgx_mpi_cmp_abs(mem[args[2]], mem[args[1]])
    /\ op = "cmp_int" =>
          /\ ret = Sign(Val(mem["X"]) - args[2])
          /\ ret = sgx_mpi_cmp_mpi(mem["X"],
                                   [s |-> Sign(2 * args[2] + 1),
                                    p |-> <<Sign(args[2]) * args[2]>>])

\* cmp_mpi of a zero of two limbs with the stored sign -1 against a negative
\* value with a zero limb on top: the zero is the larger one
CmpWitness ==
    /\ op = "cmp_mpi"
    /\ args = <<"X", "Y">>
    /\ mem["X"] = [s |-> 0 - 1, p |-> <<0, 0>>]
    /\ mem["Y"] = [s |-> 0 - 1, p |-> <<1, 0, 0>>]
    /\ ret = 1

(***************************************************************************)
(* sub_abs over distinct and aliased arguments                             *)
(***************************************************************************)
\* the index from 0 of the last limb of X->p that sub_hlp( n, B->p, X->p )
\* touches in sub_abs, -1 when it touches none
SubAbsLast(h, X, A, B0) ==
    LET h1 == IF X = B0 THEN sgx_mpi_copy(h, "sub_abs.TB", B0).h ELSE h
        h2 == IF X # A THEN sgx_mpi_copy(h1, X, A).h ELSE h1
        B == IF X = B0 THEN "sub_abs.TB" ELSE B0
    IN  SubLoopLast(EffLen(h2[B].p), h2[B].p, h2[X].p, 0, 0)

\* the length of X->p when sub_hlp runs
SubAbsRoom(h, X, A) ==
    IF X # A THEN Len(sgx_mpi_copy(h, X, A).h[X].p) ELSE Len(h[X].p)

MaxSubLimbs == 2
SubLimbs == {0, 1, LimbMod \div 2, LimbMod - 1}
SubValues == MPIs(SubLimbs, MaxSubLimbs) \cup {InitMPI}
SubTargets == {InitMPI, [s |-> 0 - 1, p |-> <<7>>], [s |-> 1, p |-> <<7, 7, 7>>]}
SubArgs ==
    {<<"X", "A", "B">>, <<"A", "A", "B">>, <<"B", "A", "B">>, <<"A", "A", "A">>,
     <<"X", "A", "A">>}

InitSub ==
    /\ \E x \in SubTargets, a \in SubValues, b \in SubValues :
          mem = Memory([X |-> x, A |-> a, B |-> b])
    /\ pre = mem
    /\ op = "none"
    /\ args = <<>>
    /\ ret = 0
    /\ steps = 0

\* mpi_sub_abs( X, A, B ): a limb of X touched past its buffer is a fault
SubAbs ==
    /\ steps = 0
    /\ \E a \in SubArgs :
          Call("sub_abs", a,
               IF sgx_mpi_cmp_abs(mem[a[2]], mem[a[3]]) >= 0
                  /\ SubAbsLast(mem, a[1], a[2], a[3]) >= SubAbsRoom(mem, a[1], a[2])
               THEN Err(SIGSEGV, mem)
               ELSE sgx_mpi_sub_abs(mem, a[1], a[2], a[3]))

\* mpi_cmp_abs( A, B ) on what the call left
SubCompare ==
    /\ op = "sub_abs"
    /\ Call("cmp_abs", <<"A", "B">>,
            [ret |-> sgx_mpi_cmp_abs(mem["A"], mem["B"]), h |-> mem])

NextSub == SubAbs \/ SubCompare

SpecSub == InitSub /\ [][NextSub]_vars

\* C15: sub_abs(X, A, B) fails with NEGATIVE_VALUE exactly when |A| < |B| and
\* then leaves every object, X included, as it was, also when X is the
\* object of A or of B; otherwise it returns 0 with X = |A| - |B| and the
\* sign +1, and sub_hlp touches no limb past the buffer of X
SubAbsContract ==
    op = "sub_abs" =>
        IF Mag(pre[args[2]].p) < Mag(pre[args[3]].p)
        THEN /\ ret = POLARSSL_ERR_MPI_NEGATIVE_VALUE
             /\ mem = pre
        ELSE /\ ret = 0
             /\ mem[args[1]].s = 1
             /\ Mag(mem[args[1]].p) = Mag(pre[args[2]].p) - Mag(pre[args[3]].p)
             /\ mem["sub_abs.TB"] = InitMPI

\* X is the object of B, A = 2^biL and B = -1: the borrow runs into the top
\* limb of A, and X, one limb before the call, ends as 2^biL - 1 in two limbs
SubAbsWitness ==
    /\ op = "sub_abs"
    /\ args = <<"B", "A", "B">>
    /\ pre["A"] = [s |-> 1, p |-> <<0, 1>>]
    /\ pre["B"] = [s |-> 0 - 1, p |-> <<1>>]
    /\ mem["B"] = [s |-> 1, p |-> <<LimbMod - 1, 0>>]
    /\ ret = 0

(***************************************************************************)
(* The temporaries of the compound operations.  Each operation is taken as *)
(* the sequence of its statements that can allocate or fail, in the order  *)
(* of the source, with the loops passed once; a statement is the object it *)
(* may grow, the limbs it asks for, whether a condition of the code can    *)
(* skip it, and the status it fails with.  The limbs a statement writes    *)
(* are not followed: every limb of a buffer written to holds TempLimb.     *)
(***************************************************************************)
TempLimb == 7

Grow(t, n) ==
    [k |-> "grow", t |-> t, n |-> n, opt |-> FALSE,
     err |-> POLARSSL_ERR_MPI_MALLOC_FAILED]
MayGrow(t, n) ==
    [k |-> "grow", t |-> t, n |-> n, opt |-> TRUE,
     err |-> POLARSSL_ERR_MPI_MALLOC_FAILED]
\* a test that sends to cleanup with a status of its own
Check(err) == [k |-> "check", t |-> NULL, n |-> 0, opt |-> TRUE, err |-> err]
\* sgx_memcpy( _RR, &RR, sizeof( mpi ) ) and sgx_memcpy( &RR, _RR, sizeof( mpi ) )
StoreSlot == [k |-> "store", t |-> NULL, n |-> 0, opt |-> FALSE, err |-> 0]
LoadSlot == [k |-> "load", t |-> NULL, n |-> 0, opt |-> FALSE, err |-> 0]

\* mpi W[ 2 << POLARSSL_MPI_WINDOW_SIZE ]: the entries a window of 3 bits uses
ExpTable ==
    <<"exp_mod.W1", "exp_mod.W2", "exp_mod.W3", "exp_mod.W4", "exp_mod.W5",
      "exp_mod.W6", "exp_mod.W7">>

\* for( i = j + 1; i < ( one << wsize ); i++ ) { grow( &W[i], ... ); copy( &W[i], &W[i - 1] ); }
RECURSIVE ExpTableFill(_, _)
ExpTableFill(i, wsize) ==
    IF i >= 2^wsize THEN <<>>
    ELSE <<Grow(ExpTable[i], 2), Grow(ExpTable[i], 2)>> \o ExpTableFill(i + 1, wsize)

\* the statements of exp_mod; v.slot is the argument _RR, v.wsize the window
ExpBody(m, v) ==
    <<Grow("X", 2), Grow("exp_mod.W1", 2), Grow("exp_mod.T", 4),
      MayGrow("exp_mod.Apos", 1)>>
    \o (IF v.slot = NULL
        THEN <<Grow("exp_mod.RR", 1), Grow("exp_mod.RR", 3), Grow("exp_mod.RR", 3)>>
        ELSE IF m.obj[v.slot].p = NullAddr
        THEN <<Grow("exp_mod.RR", 1), Grow("exp_mod.RR", 3), Grow("exp_mod.RR", 3),
               StoreSlot>>
        ELSE <<LoadSlot>>)
    \o <<Grow("exp_mod.W1", 2), Grow("X", 2)>>
    \o (IF v.wsize > 1 THEN ExpTableFill(2^(v.wsize - 1), v.wsize) ELSE <<>>)
    \o <<MayGrow("X", 2)>>

\* the statements of each operation between the init of its locals and its
\* cleanup label; m is the memory at entry
TempBody(f, m, v) ==
    CASE f = "sub_abs" -> <<MayGrow("sub_abs.TB", 1), MayGrow("X", 1)>>
      [] f = "mul_mpi" ->
           <<MayGrow("mul_mpi.TA", 1), MayGrow("mul_mpi.TB", 1), Grow("X", 2),
             Grow("X", 1)>>
      [] f = "div_mpi" ->
           IF v.small
           THEN <<MayGrow("X", 1), MayGrow("X", 1)>>
           ELSE <<Grow("div.X", 1), Grow("div.Y", 1), Grow("div.Z", 3),
                  Grow("div.Z", 1), Grow("div.T1", 2), Grow("div.T2", 3),
                  MayGrow("div.X", 2), MayGrow("div.Y", 2), Grow("div.Y", 2),
                  MayGrow("div.X", 2), Grow("div.Y", 2), Grow("div.T1", 1),
                  Grow("div.T1", 3), Grow("div.T2", 1), Grow("div.T1", 3),
                  Grow("div.T1", 3), Grow("div.X", 2), MayGrow("div.T1", 3),
                  MayGrow("div.T1", 3), MayGrow("div.X", 2), MayGrow("X", 2),
                  MayGrow("div.X", 2), MayGrow("X", 1)>>
      [] f = "mod_mpi" -> <<Grow("X", 1), MayGrow("X", 1)>>
      [] f = "read_string" ->
           <<Grow("X", 1), Check(POLARSSL_ERR_MPI_INVALID_CHARACTER),
             MayGrow("read_string.T", 2), Grow("X", 2)>>
      [] f = "exp_mod" -> ExpBody(m, v)
      [] f = "gcd" ->
           <<Grow("gcd.TA", 1), Grow("gcd.TB", 1), Grow("gcd.TA", 1),
             Grow("gcd.TB", 1), MayGrow("gcd.TA", 1), MayGrow("gcd.TB", 1),
             Grow("gcd.TB", 2), Grow("X", 2)>>
      [] f = "inv_mod" ->
           <<Grow("inv_mod.G", 1), Check(POLARSSL_ERR_MPI_NOT_ACCEPTABLE),
             Grow("inv_mod.TA", 1), Grow("inv_mod.TU", 1), Grow("inv_mod.TB", 1),
             Grow("inv_mod.TV", 1), Grow("inv_mod.U1", 1), Grow("inv_mod.U2", 1),
             Grow("inv_mod.V1", 1), Grow("inv_mod.V2", 1), Grow("inv_mod.TU", 1),
             MayGrow("inv_mod.U1", 2), MayGrow("inv_mod.U2", 2),
             Grow("inv_mod.TV", 1), MayGrow("inv_mod.V1", 2),
             MayGrow("inv_mod.V2", 2), Grow("inv_mod.TU", 1),
             Grow("inv_mod.V1", 2), Grow("X", 1)>>
      [] f = "miller_rabin" ->
           <<Grow("miller_rabin.W", 1), Grow("miller_rabin.R", 1),
             Grow("miller_rabin.R", 1), Grow("miller_rabin.A", 1),
             MayGrow("miller_rabin.A", 1), Grow("miller_rabin.RR", 3),
             Grow("miller_rabin.A", 2), MayGrow("miller_rabin.T", 2),
             MayGrow("miller_rabin.A", 2), Check(POLARSSL_ERR_MPI_NOT_ACCEPTABLE)>>
      [] f = "gen_prime" ->
           <<Grow("X", 1), MayGrow("X", 2), MayGrow("X", 2),
             MayGrow("gen_prime.Y", 2), MayGrow("gen_prime.Y", 2),
             Check(POLARSSL_ERR_CTR_DRBG_ENTROPY_SOURCE_FAILED), MayGrow("X", 2),
             MayGrow("gen_prime.Y", 2)>>

\* the locals each operation inits on entry
TempLocals(f) ==
    CASE f = "sub_abs" -> <<"sub_abs.TB">>
      [] f = "mul_mpi" -> <<"mul_mpi.TA", "mul_mpi.TB">>
      [] f = "div_mpi" -> <<"div.X", "div.Y", "div.Z", "div.T1", "div.T2">>
      [] f = "mod_mpi" -> <<>>
      [] f = "read_string" -> <<"read_string.T">>
      [] f = "exp_mod" -> <<"exp_mod.RR", "exp_mod.T", "exp_mod.Apos">> \o ExpTable
      [] f = "gcd" -> <<"gcd.TG", "gcd.TA", "gcd.TB">>
      [] f = "inv_mod" ->
           <<"inv_mod.TA", "inv_mod.TU", "inv_mod.U1", "inv_mod.U2", "inv_mod.G",
             "inv_mod.TB", "inv_mod.TV", "inv_mod.V1", "inv_mod.V2">>
      [] f = "miller_rabin" ->
           <<"miller_rabin.W", "miller_rabin.R", "miller_rabin.T",
             "miller_rabin.A", "miller_rabin.RR">>
      [] f = "gen_prime" -> <<"gen_prime.Y">>

\* mutant of ExpTableFrees: the first entry of the upper half is left out
ExpTableSkipsFirst(wsize) ==
    [i \in 1..(2^wsize - 2^(wsize - 1) - 1) |-> ExpTable[2^(wsize - 1) + i]]

\* for( i = ( one << ( wsize - 1 ) ); i < ( one << wsize ); i++ ) sgx_mpi_free( &W[i] );
ExpTableFrees(wsize) ==
    [i \in 1..(2^wsize - 2^(wsize - 1)) |-> ExpTable[2^(wsize - 1) + i - 1]]

\* the objects each operation frees after its cleanup label, in that order
TempFrees(f, v) ==
    CASE f = "exp_mod" ->
           ExpTableFrees(v.wsize) \o <<"exp_mod.W1", "exp_mod.T", "exp_mod.Apos">>
      [] f = "mul_mpi" -> <<"mul_mpi.TB", "mul_mpi.TA">>
      [] OTHER -> TempLocals(f)

RECURSIVE InitEach(_, _, _)
InitEach(m, names, i) ==
    IF i > Len(names) THEN m
    ELSE InitEach(sgx_mpi_init_ptr(m, names[i]), names, i + 1)

RECURSIVE FreeEach(_, _, _)
FreeEach(m, names, i) ==
    IF i > Len(names) THEN m
    ELSE FreeEach(sgx_mpi_free_ptr(m, names[i]), names, i + 1)

\* the statements after the cleanup label
TempCleanup(m, f, v) ==
    IF f = "exp_mod"
    THEN ExpCleanupRR(FreeEach(m, TempFrees(f, v), 1), v.slot)
    ELSE FreeEach(m, TempFrees(f, v), 1)

\* the status of the test an operation makes before it inits its locals
TempInputError(f) ==
    CASE f = "sub_abs" -> POLARSSL_ERR_MPI_NEGATIVE_VALUE
      [] f = "div_mpi" -> POLARSSL_ERR_MPI_DIVISION_BY_ZERO
      [] f = "mod_mpi" -> POLARSSL_ERR_MPI_NEGATIVE_VALUE
      [] f \in {"read_string", "exp_mod", "inv_mod", "gen_prime"} ->
           POLARSSL_ERR_MPI_BAD_INPUT_DATA
      [] OTHER -> 0

\* a statement that went through: the object it grows holds what it wrote
TempDone(m, st) ==
    CASE st.k = "grow" ->
           LET g == sgx_mpi_grow_ptr(m, st.t, st.n, TRUE).m
           IN  HeapStore(g, st.t, [i \in 1..g.obj[st.t].n |-> TempLimb])
      [] st.k = "store" -> [m EXCEPT !.obj["RR"] = m.obj["exp_mod.RR"]]
      [] st.k = "load" -> [m EXCEPT !.obj["exp_mod.RR"] = m.obj["RR"]]
      [] OTHER -> m

(***************************************************************************)
(* Callers of the compound operations, with a failure at any statement     *)
(***************************************************************************)
MaxTempCalls == 2
Compound ==
    {"sub_abs", "mul_mpi", "div_mpi", "mod_mpi", "read_string", "exp_mod", "gcd",
     "inv_mod", "miller_rabin", "gen_prime"}
\* the caller's objects: the output X and the cache slot RR
TempCallers == {"X", "RR"}
TempNames ==
    TempCallers \cup UNION {{TempLocals(f)[i] : i \in 1..Len(TempLocals(f))} : f \in Compound}
TempVariants(f) ==
    CASE f = "exp_mod" -> {[wsize |-> w, slot |-> sl] : w \in {1, 3}, sl \in {NULL, "RR"}}
      [] f = "div_mpi" -> {[small |-> b] : b \in BOOLEAN}
      [] OTHER -> {[plain |-> TRUE]}

InitTemp ==
    /\ mem \in {[obj |-> [x \in TempNames |-> InitStruct], heap |-> <<>>,
                 live |-> {}, freed |-> <<>>],
                [obj |-> [x \in TempNames |->
                            IF x = "X" THEN [s |-> 0 - 1, n |-> 1, p |-> 1]
                            ELSE InitStruct],
                 heap |-> << <<TempLimb>> >>, live |-> {1}, freed |-> <<>>]}
    /\ pre = mem
    /\ op = "none"
    /\ args = <<>>
    /\ ret = 0
    /\ steps = 0

\* the memory a call starts from: the frame of the call before is gone
TempFrameGone ==
    IF op = "none" THEN mem ELSE InitEach(mem, TempLocals(op), 1)

\* the call up to the first statement of the body, or the return of an input error
TempEnter ==
    /\ IF op = "none" THEN TRUE ELSE args[2] = "returned"
    /\ steps < MaxTempCalls
    /\ \E f \in Compound, bad \in BOOLEAN :
          \E v \in TempVariants(f) :
             /\ bad => TempInputError(f) # 0
             /\ op' = f
             /\ pre' = TempFrameGone
             /\ steps' = steps + 1
             /\ IF bad
                THEN /\ mem' = TempFrameGone
                     /\ ret' = TempInputError(f)
                     /\ args' = <<v, "returned", 0>>
                ELSE /\ mem' = InitEach(TempFrameGone, TempLocals(f), 1)
                     /\ ret' = 0
                     /\ args' = <<v, "body", 1>>

\* a statement of the body goes through, or a condition of the code skips it
TempRun ==
    /\ op \in Compound
    /\ args[2] = "body"
    /\ args[3] \in 1..Len(TempBody(op, pre, args[1]))
    /\ \E skip \in BOOLEAN :
          /\ skip => TempBody(op, pre, args[1])[args[3]].opt
          /\ mem' = IF skip THEN mem
                    ELSE TempDone(mem, TempBody(op, pre, args[1])[args[3]])
          /\ args' = <<args[1], "body", args[3] + 1>>
          /\ UNCHANGED <<pre, op, ret, steps>>

\* a statement of the body fails, before or after its object was grown: MPI_CHK
\* goes to cleanup
TempFail ==
    /\ op \in Compound
    /\ args[2] = "body"
    /\ args[3] \in 1..Len(TempBody(op, pre, args[1]))
    /\ TempBody(op, pre, args[1])[args[3]].err # 0
    /\ \E grown \in BOOLEAN :
          /\ mem' = IF grown /\ TempBody(op, pre, args[1])[args[3]].k = "grow"
                    THEN TempDone(mem, TempBody(op, pre, args[1])[args[3]])
                    ELSE mem
          /\ ret' = TempBody(op, pre, args[1])[args[3]].err
          /\ args' = <<args[1], "cleanup", 0>>
          /\ UNCHANGED <<pre, op, steps>>

\* the end of the body: cleanup, or the return( 0 ) of div_mpi for |A| < |B|
TempEnd ==
    /\ op \in Compound
    /\ args[2] = "body"
    /\ args[3] = Len(TempBody(op, pre, args[1])) + 1
    /\ args' = <<args[1],
                IF op = "div_mpi" /\ args[1].small THEN "returned" ELSE "cleanup",
                0>>
    /\ UNCHANGED <<mem, pre, op, ret, steps>>

\* the statements after the cleanup label, and the return
TempReturn ==
    /\ op \in Compound
    /\ args[2] = "cleanup"
    /\ mem' = TempCleanup(mem, op, args[1])
    /\ args' = <<args[1], "returned", 0>>
    /\ UNCHANGED <<pre, op, ret, steps>>

NextTemp == TempEnter \/ TempRun \/ TempFail \/ TempEnd \/ TempReturn

SpecTemp == InitTemp /\ [][NextTemp]_vars

\* C16: when a compound operation returns - with success, an input error or
\* a failure at any of its statements - no local of it holds a buffer, every
\* buffer allocated since entry and not held by an object of the caller (the
\* output, the cache slot) has been released, each buffer was released once,
\* and every released buffer had all its limbs zero
TempsReleased ==
    (op \in Compound /\ args[2] = "returned") =>
        /\ \A i \in 1..Len(TempLocals(op)) :
              \/ mem.obj[TempLocals(op)[i]].p = NullAddr
              \/ /\ TempLocals(op)[i] = "exp_mod.RR"
                 /\ args[1].slot # NULL
                 /\ mem.obj["exp_mod.RR"].p = mem.obj["RR"].p
        /\ mem.live = {mem.obj[c].p : c \in TempCallers} \ {NullAddr}
        /\ \A i \in 1..Len(mem.freed), j \in 1..Len(mem.freed) :
              mem.freed[i].a = mem.freed[j].a => i = j
        /\ \A i \in 1..Len(mem.freed) :
              \A j \in 1..Len(mem.freed[i].limbs) : mem.freed[i].limbs[j] = 0

\* exp_mod with a window of 3 bits and an empty slot failed at its last
\* statement: the five table entries, T and the grown buffers were released,
\* the R^2 it computed stays with the slot
TempWitness ==
    /\ op = "exp_mod"
    /\ args = <<[wsize |-> 3, slot |-> "RR"], "returned", 0>>
    /\ ret = POLARSSL_ERR_MPI_MALLOC_FAILED
    /\ pre.obj["RR"].p = NullAddr
    /\ mem.obj["RR"].p # NullAddr
    /\ mem.obj["RR"].p \in mem.live
    /\ Len(mem.freed) - Len(pre.freed) >= 6

====
